---- MODULE Spec2Model ----
(***************************************************************************)
(* Model of the DEGIRO portfolio dashboard (src/app.py, src/managers.py). *)
(*                                                                         *)
(* The parts of the program that are modelled, each with its own            *)
(* specification (the variables of the other parts stay idle):             *)
(*   - the rebalancing planner inside render_overview (SpecPlan,           *)
(*     SpecPlanFair);                                                      *)
(*   - build_positions / build_portfolio_history (SpecHist, SpecStitch);   *)
(*   - PriceManager.resolve_ticker of managers.py (SpecResolve) and its    *)
(*     symbol search on arbitrary search results (SpecSelect);             *)
(*   - the price accessors of managers.py and app.py (SpecAccess);         *)
(*   - the background PriceManager of app.py and its readers (SpecWorker,  *)
(*     SpecWorkerFair);                                                    *)
(*   - ConfigManager of managers.py and its JSON files (SpecConfig).       *)
(*                                                                         *)
(* Money, prices and share counts are floats in the code.  The model uses  *)
(* exact rationals [n |-> numerator, d |-> denominator > 0] in lowest      *)
(* terms, so comparisons are those of the real numbers the floats stand    *)
(* for.                                                                    *)
(***************************************************************************)
EXTENDS Integers, Sequences, FiniteSets, TLC

\* ------------------------------------------------------------------------
\* Bounds of the model
\* ------------------------------------------------------------------------
MaxKeys == 2    \* rows of the rebalancing editor
MaxTx == 3      \* rows of the ledger
Now == 7        \* pd.Timestamp.now(), in ticks

\* ------------------------------------------------------------------------
\* Exact rational arithmetic (stands for Python float arithmetic)
\* ------------------------------------------------------------------------
Abs(x) == IF x < 0 THEN -x ELSE x

RECURSIVE GCD(_, _)
GCD(a, b) == IF b = 0 THEN a ELSE GCD(b, a % b)

Rat(n, d) ==
    LET s == IF d < 0 THEN -1 ELSE 1
        g == GCD(Abs(n), Abs(d))
    IN  [n |-> (s * n) \div g, d |-> (s * d) \div g]

RInt(k) == [n |-> k, d |-> 1]
RZero == RInt(0)
\* Sums and comparisons go through the least common denominator and products
\* cancel crosswise first, which keeps the intermediate integers small.
RAdd(a, b) ==
    LET g == GCD(a.d, b.d)
    IN  Rat(a.n * (b.d \div g) + b.n * (a.d \div g), (a.d \div g) * b.d)
RNeg(a) == [n |-> -a.n, d |-> a.d]
RSub(a, b) == RAdd(a, RNeg(b))
RMul(a, b) ==
    LET g1 == GCD(Abs(a.n), b.d)
        g2 == GCD(Abs(b.n), a.d)
    IN  Rat((a.n \div g1) * (b.n \div g2), (a.d \div g2) * (b.d \div g1))
RDiv(a, b) == RMul(a, Rat(b.d, b.n))
RLt(a, b) ==
    LET g == GCD(a.d, b.d)
    IN  a.n * (b.d \div g) < b.n * (a.d \div g)
RLe(a, b) ==
    LET g == GCD(a.d, b.d)
    IN  a.n * (b.d \div g) <= b.n * (a.d \div g)
RAbs(a) == [n |-> Abs(a.n), d |-> a.d]
RMax(a, b) == IF RLt(a, b) THEN b ELSE a

\* Python's round(x): nearest integer, ties to the even one.
PyRound(a) ==
    LET q == a.n \div a.d
        r2 == 2 * (a.n - q * a.d)
    IN  IF r2 < a.d THEN q
        ELSE IF r2 > a.d THEN q + 1
        ELSE IF q % 2 = 0 THEN q ELSE q + 1

RECURSIVE RSumSeq(_)
RSumSeq(s) == IF s = <<>> THEN RZero ELSE RAdd(Head(s), RSumSeq(Tail(s)))

\* ------------------------------------------------------------------------
\* State
\* ------------------------------------------------------------------------
VARIABLES
    \* rebalancing planner (render_overview)
    pc,              \* position in the planner: "input", "actions", "correct", "done"
    rows,            \* edited_df joined with alloc: one record per product
    extra_budget,    \* "Nieuwe investering" (whole euros)
    prevent_sell,    \* "Voorkom verkoop"
    raw_actions,     \* the list of action dicts
    buys_indices,    \* indices the lumpy correction still has to visit
    initial_actions, \* raw_actions as phase 1 built them (history variable)
    \* positions and valuation history (build_positions, build_portfolio_history)
    hpc,             \* position: "start", "positions", "loop", "finish", "done"
    ledger,          \* the enriched transactions df: a set of rows
    feed,            \* what yf.download returns: ticker -> [daily, hourly]
    positions,       \* result of build_positions
    todo,            \* valid_products the loop has still to process
    history_frames,  \* the frames appended so far
    final_df,        \* the returned frame: a sequence of rows
    stitched,        \* product -> full_price_series after the stitch
    cum_qty          \* product -> last value of qty_on_tx

planVars == <<pc, rows, extra_budget, prevent_sell, raw_actions, buys_indices,
              initial_actions>>

histVars == <<hpc, ledger, feed, positions, todo, history_frames, final_df,
              stitched, cum_qty>>

VARIABLES
    \* ticker resolver (managers.py: ConfigManager mappings, PriceManager)
    mappings,        \* _config["mappings"]: a dict key -> ticker string
    yf_valid,        \* tickers for which yf history(period="1d") is not empty
    search_up,       \* the Yahoo search endpoint answers (else: exception)
    last,            \* record of the latest resolve_ticker call (history)
    prev,            \* record of the call before it (history)
    validated,       \* tickers the feed has ever returned a sample for (history)
    ncalls,          \* number of resolve_ticker calls made
    \* background price manager (app.py: class PriceManager) and its readers
    prices,          \* self.prices: a dict ticker -> price
    tickers_to_watch,\* self.tickers_to_watch
    lock,            \* holder of self.lock: "free", "worker" or a reader
    running,         \* self.running
    wpc,             \* position of _worker
    current_watchlist, \* _worker's snapshot
    results,         \* _worker's local results dict
    rpc,             \* reader -> position inside update_watchlist / get_price
    rarg,            \* reader -> argument of the call in progress
    rret,            \* reader -> value returned by its latest get_price
    stop_cycles,     \* cycles started after running was cleared (history)
    stop_writes,     \* writes to prices after running was cleared (history)
    slept,           \* the time.sleep call that ended this pass of the loop
    \* price accessors (managers.py 342-413, app.py 724-769)
    acc              \* record of the latest accessor call and its outcome

resVars == <<mappings, yf_valid, search_up, last, prev, validated, ncalls>>

workVars == <<prices, tickers_to_watch, lock, running, wpc, current_watchlist,
              results, rpc, rarg, rret, stop_cycles, stop_writes, slept>>

accVars == <<acc>>

VARIABLES
    \* step 4 of resolve_ticker: the symbol search (managers.py 241-299)
    dpc,             \* position: "input", "done" ("idle": not running)
    isin_quotes,     \* what the search returns for the isin
    name_quotes,     \* what the search returns for the product name
    search_valid,    \* tickers for which _validate_ticker returns True
    discovered_ticker, \* the result of step 4
    \* configuration store (managers.py: class ConfigManager)
    has_drive,       \* self.drive is set
    drive_files,     \* the JSON files of the Drive folder: name -> content
    local_files,     \* the JSON files of the working directory
    config,          \* self._config of the live ConfigManager
    log              \* the calls made so far, with their outcome (history)

selVars == <<dpc, isin_quotes, name_quotes, search_valid, discovered_ticker>>

cfgVars == <<has_drive, drive_files, local_files, config, log>>

svcVars == <<resVars, workVars, accVars, selVars, cfgVars>>

vars == <<planVars, histVars, resVars, workVars, accVars, selVars, cfgVars>>

\* The value None of the code.
None == "None"

\* No time.sleep call has ended the current pass of the worker's loop.
NoSleep == [duration |-> 0, weekday |-> 0 - 1, hour |-> 0 - 1]

\* No resolve_ticker call is made.
ResolverIdle ==
    /\ mappings = <<>>
    /\ yf_valid = {}
    /\ search_up = FALSE
    /\ last = None
    /\ prev = None
    /\ validated = {}
    /\ ncalls = 0

\* No PriceManager object exists.
WorkerIdle ==
    /\ prices = <<>>
    /\ tickers_to_watch = {}
    /\ lock = "free"
    /\ running = FALSE
    /\ wpc = "idle"
    /\ current_watchlist = {}
    /\ results = <<>>
    /\ rpc = <<>>
    /\ rarg = <<>>
    /\ rret = <<>>
    /\ stop_cycles = 0
    /\ stop_writes = 0
    /\ slept = NoSleep

\* No price accessor is called.
AccessIdle == acc = None

\* No symbol search is running.
SelectIdle ==
    /\ dpc = "idle"
    /\ isin_quotes = <<>>
    /\ name_quotes = <<>>
    /\ search_valid = {}
    /\ discovered_ticker = None

\* No ConfigManager object exists.
ConfigIdle ==
    /\ has_drive = FALSE
    /\ drive_files = <<>>
    /\ local_files = <<>>
    /\ config = <<>>
    /\ log = <<>>

ServicesIdle ==
    ResolverIdle /\ WorkerIdle /\ AccessIdle /\ SelectIdle /\ ConfigIdle

\* ------------------------------------------------------------------------
\* Rebalancing planner: inputs
\* ------------------------------------------------------------------------
\* Prices the feed can report for a position (0 stands for a missing price:
\* NaN is replaced by 0.0).
Prices == {RZero, Rat(1, 2), RInt(10), RInt(60)}
TargetPcts == {50, 100}
Budgets == {0, 1, 100}
AllocValues == {100}

\* Price assumed for a product that is in the saved targets but not a position.
WatchlistPrice == 100

\* A row of edited_df with what alloc holds for it.  in_alloc = FALSE is a
\* watchlist product (no current position).
KeyProfiles ==
    { [in_alloc |-> TRUE, alloc_value |-> v, price |-> p,
       is_crypto |-> k[1], is_core |-> k[2], target_pct |-> t] :
        v \in AllocValues, p \in Prices, k \in {<<TRUE, FALSE>>, <<FALSE, TRUE>>, <<FALSE, FALSE>>},
        t \in TargetPcts }
    \cup
    { [in_alloc |-> FALSE, alloc_value |-> 0, price |-> RZero,
       is_crypto |-> k[1], is_core |-> k[2], target_pct |-> t] :
        k \in {<<TRUE, FALSE>>, <<FALSE, TRUE>>, <<FALSE, FALSE>>},
        t \in TargetPcts }

\* alloc is not empty: at least one product is a position.
RowLists ==
    { s \in UNION { [1..n -> KeyProfiles] : n \in 1..MaxKeys } :
        \E i \in DOMAIN s : s[i].in_alloc }

\* ------------------------------------------------------------------------
\* Rebalancing planner: phase 1 (determine actions)
\* ------------------------------------------------------------------------
RECURSIVE SumAllocValue(_)
SumAllocValue(rs) ==
    IF rs = <<>> THEN 0
    ELSE (IF Head(rs).in_alloc THEN Head(rs).alloc_value ELSE 0)
         + SumAllocValue(Tail(rs))

total_value(rs) == SumAllocValue(rs)

new_total_value(rs, budget) == total_value(rs) + budget

\* curr_val and last_price as the row lookup in alloc yields them.
CurrVal(r) == IF r.in_alloc THEN RInt(r.alloc_value) ELSE RZero

LastPrice(r) == IF r.in_alloc THEN r.price ELSE RInt(WatchlistPrice)

TargetVal(r, nt) == Rat(nt * r.target_pct, 100)

Gap(r, nt) == RSub(TargetVal(r, nt), CurrVal(r))

\* buy_gaps: the gaps that are > 0, in row order.
RECURSIVE buy_gaps(_, _)
buy_gaps(rs, nt) ==
    IF rs = <<>> THEN <<>>
    ELSE (IF RLt(RZero, Gap(Head(rs), nt)) THEN <<Gap(Head(rs), nt)>> ELSE <<>>)
         \o buy_gaps(Tail(rs), nt)

total_buys_needed(rs, nt) == RSumSeq(buy_gaps(rs, nt))

budget_scaling_factor(rs, budget, ps) ==
    LET nt == new_total_value(rs, budget)
        needed == total_buys_needed(rs, nt)
    IN  IF ps /\ budget > 0 /\ RLt(RInt(budget), needed)
        THEN RDiv(RInt(budget), needed)
        ELSE RInt(1)

\* diff after the buy-only scaling.
ScaledDiff(r, nt, factor, ps) ==
    LET diff == Gap(r, nt)
    IN  IF ps /\ RLt(RZero, diff) THEN RMul(diff, factor) ELSE diff

QtyCalculated(diff, last_price) ==
    IF RLt(RZero, last_price) THEN RDiv(diff, last_price) ELSE RZero

\* Crypto trades fractional quantities; everything else whole shares.
QtyToTrade(is_crypto, qty_calculated) ==
    IF is_crypto THEN qty_calculated ELSE RInt(PyRound(qty_calculated))

ExecutedDiff(is_crypto, diff, qty_to_trade, last_price) ==
    IF is_crypto THEN diff ELSE RMul(qty_to_trade, last_price)

CryptoFeeRate == Rat(29, 10000)
CoreFee == 1
OtherFee == 3

FlatFee(is_core) == IF is_core THEN RInt(CoreFee) ELSE RInt(OtherFee)

PreliminaryFee(is_crypto, is_core, qty_to_trade, executed_diff) ==
    IF RLt(RZero, RAbs(qty_to_trade))
    THEN IF is_crypto THEN RMul(RAbs(executed_diff), CryptoFeeRate)
         ELSE FlatFee(is_core)
    ELSE RZero

\* Mutant: the 1.0 floor on the executed value is left out.
is_valid_NoFloor(ps, is_crypto, qty_to_trade, executed_diff) ==
    IF ps /\ RLt(qty_to_trade, RZero) THEN FALSE
    ELSE IF ~is_crypto /\ qty_to_trade = RZero THEN FALSE
    ELSE TRUE

is_valid(ps, is_crypto, qty_to_trade, executed_diff) ==
    IF ps /\ RLt(qty_to_trade, RZero) THEN FALSE
    ELSE IF RLt(RAbs(executed_diff), RInt(1))
            \/ (~is_crypto /\ qty_to_trade = RZero) THEN FALSE
    ELSE TRUE

\* One dict of raw_actions.
MakeAction(r, nt, factor, ps) ==
    LET last_price == LastPrice(r)
        diff == ScaledDiff(r, nt, factor, ps)
        qty == QtyToTrade(r.is_crypto, QtyCalculated(diff, last_price))
        executed == ExecutedDiff(r.is_crypto, diff, qty, last_price)
        fee == PreliminaryFee(r.is_crypto, r.is_core, qty, executed)
        action == IF RLt(RZero, qty) THEN "Kopen" ELSE "Verkopen"
        valid == is_valid(ps, r.is_crypto, qty, executed)
    IN  [Actie |-> IF valid THEN action ELSE "-",
         Verschil |-> IF valid THEN executed ELSE RZero,
         Aantal |-> IF valid THEN qty ELSE RZero,
         Kosten |-> IF valid THEN fee ELSE RZero,
         curr_val |-> CurrVal(r),
         target_val |-> TargetVal(r, nt),
         last_price |-> last_price,
         is_crypto |-> r.is_crypto,
         is_core |-> r.is_core]

BuildRawActions(rs, budget, ps) ==
    LET nt == new_total_value(rs, budget)
        factor == budget_scaling_factor(rs, budget, ps)
    IN  [i \in DOMAIN rs |-> MakeAction(rs[i], nt, factor, ps)]

\* ------------------------------------------------------------------------
\* Rebalancing planner: phase 1.5 (lumpy correction)
\* ------------------------------------------------------------------------
RECURSIVE SumBuys(_)
SumBuys(actions) ==
    IF actions = <<>> THEN RZero
    ELSE LET a == Head(actions)
         IN  RAdd(IF a.Actie = "Kopen" THEN RAdd(a.Verschil, a.Kosten) ELSE RZero,
                  SumBuys(Tail(actions)))

RECURSIVE SumSells(_)
SumSells(actions) ==
    IF actions = <<>> THEN RZero
    ELSE LET a == Head(actions)
         IN  RAdd(IF a.Actie = "Verkopen"
                  THEN RSub(RAbs(a.Verschil), a.Kosten) ELSE RZero,
                  SumSells(Tail(actions)))

calc_net(actions) == RSub(SumBuys(actions), RMax(RZero, SumSells(actions)))

\* tolerance = extra_budget * 0.1; the limit is extra_budget + tolerance.
TolerancePct == 10

tolerance(budget) == Rat(budget * TolerancePct, 100)

NetLimit(budget) == RAdd(RInt(budget), tolerance(budget))

OverBudget(actions, budget) == RLt(NetLimit(budget), calc_net(actions))

\* list.sort(key=last_price, reverse=True): stable, descending by price.
RECURSIVE InsertByPrice(_, _, _)
InsertByPrice(i, sorted, actions) ==
    IF sorted = <<>> THEN <<i>>
    ELSE IF RLt(actions[Head(sorted)].last_price, actions[i].last_price)
         THEN <<i>> \o sorted
         ELSE <<Head(sorted)>> \o InsertByPrice(i, Tail(sorted), actions)

RECURSIVE SortByPriceDesc(_, _)
SortByPriceDesc(idxs, actions) ==
    IF idxs = <<>> THEN <<>>
    ELSE InsertByPrice(idxs[Len(idxs)],
                       SortByPriceDesc(SubSeq(idxs, 1, Len(idxs) - 1), actions),
                       actions)

RECURSIVE NonCryptoBuys(_, _)
NonCryptoBuys(actions, i) ==
    IF i > Len(actions) THEN <<>>
    ELSE (IF actions[i].Actie = "Kopen" /\ ~actions[i].is_crypto
          THEN <<i>> ELSE <<>>) \o NonCryptoBuys(actions, i + 1)

\* Mutant: the buys are visited in row order, the sort is left out.
BuysIndices_RowOrder(actions) == NonCryptoBuys(actions, 1)

BuysIndices(actions) == SortByPriceDesc(NonCryptoBuys(actions, 1), actions)

\* Mutant: the executed value is not recomputed after the reduction.
ReduceOneShare_KeepValue(a) ==
    IF RLe(RInt(1), a.Aantal)
    THEN LET qty == RSub(a.Aantal, RInt(1))
         IN  [a EXCEPT !.Aantal = qty,
                       !.Kosten = IF qty = RZero THEN RZero ELSE FlatFee(a.is_core),
                       !.Actie = IF qty = RZero THEN "-" ELSE a.Actie]
    ELSE a

\* The body of the correction loop for one action_item.
ReduceOneShare(a) ==
    IF RLe(RInt(1), a.Aantal)
    THEN LET qty == RSub(a.Aantal, RInt(1))
         IN  [a EXCEPT !.Aantal = qty,
                       !.Verschil = RMul(qty, a.last_price),
                       !.Kosten = IF qty = RZero THEN RZero ELSE FlatFee(a.is_core),
                       !.Actie = IF qty = RZero THEN "-" ELSE a.Actie]
    ELSE a

\* The planner is not running.
PlanIdle ==
    /\ pc = "idle"
    /\ rows = <<>>
    /\ extra_budget = 0
    /\ prevent_sell = FALSE
    /\ raw_actions = <<>>
    /\ buys_indices = <<>>
    /\ initial_actions = <<>>

\* The history procedure is not running.
HistIdle ==
    /\ hpc = "idle"
    /\ ledger = {}
    /\ feed = <<>>
    /\ positions = {}
    /\ todo = <<>>
    /\ history_frames = <<>>
    /\ final_df = <<>>
    /\ stitched = <<>>
    /\ cum_qty = <<>>

\* ------------------------------------------------------------------------
\* Rebalancing planner: the procedure as a state machine
\* ------------------------------------------------------------------------
InitPlan ==
    /\ pc = "input"
    /\ rows \in RowLists
    /\ extra_budget \in Budgets
    /\ prevent_sell \in BOOLEAN
    /\ raw_actions = <<>>
    /\ buys_indices = <<>>
    /\ initial_actions = <<>>
    /\ HistIdle
    /\ ServicesIdle

\* The loop "for idx, row in edited_df.iterrows()" that fills raw_actions.
Phase1 ==
    /\ pc = "input"
    /\ raw_actions' = BuildRawActions(rows, extra_budget, prevent_sell)
    /\ initial_actions' = raw_actions'
    /\ pc' = "actions"
    /\ UNCHANGED <<rows, extra_budget, prevent_sell, buys_indices>>
    /\ UNCHANGED <<histVars, svcVars>>

\* "if current_net > extra_budget + tolerance": enter the correction or skip it.
CorrectionStart ==
    /\ pc = "actions"
    /\ IF OverBudget(raw_actions, extra_budget)
       THEN /\ buys_indices' = BuysIndices(raw_actions)
            /\ pc' = IF buys_indices' = <<>> THEN "done" ELSE "correct"
       ELSE /\ buys_indices' = <<>>
            /\ pc' = "done"
    /\ UNCHANGED <<rows, extra_budget, prevent_sell, raw_actions, initial_actions>>
    /\ UNCHANGED <<histVars, svcVars>>

\* One iteration of "for idx in buys_indices".
CorrectionStep ==
    /\ pc = "correct"
    /\ buys_indices # <<>>
    /\ LET idx == Head(buys_indices)
           reduced == RLe(RInt(1), raw_actions[idx].Aantal)
       IN  /\ raw_actions' = [raw_actions EXCEPT ![idx] = ReduceOneShare(@)]
           /\ IF reduced /\ ~OverBudget(raw_actions', extra_budget)
              THEN /\ pc' = "done"                      \* break
                   /\ buys_indices' = <<>>
              ELSE /\ buys_indices' = Tail(buys_indices)
                   /\ pc' = IF buys_indices' = <<>> THEN "done" ELSE "correct"
    /\ UNCHANGED <<rows, extra_budget, prevent_sell, initial_actions>>
    /\ UNCHANGED <<histVars, svcVars>>

NextPlan == Phase1 \/ CorrectionStart \/ CorrectionStep

SpecPlan == InitPlan /\ [][NextPlan]_vars

\* The script runs to its end: no step of the planner waits for anything.
\* This is weak fairness of NextPlan, written with the states in which a step
\* is enabled: every state before "done" has a step that changes pc or
\* shortens buys_indices.
PlanEnabled == pc \in {"input", "actions", "correct"}

SpecPlanFair == SpecPlan /\ ([]<>(~PlanEnabled) \/ []<><<NextPlan>>_vars)

\* ------------------------------------------------------------------------
\* Rebalancing planner: claims
\* ------------------------------------------------------------------------
Planned == pc \in {"actions", "correct", "done"}

IsNone(a) ==
    a.Actie = "-" /\ a.Aantal = RZero /\ a.Verschil = RZero /\ a.Kosten = RZero

\* The price of row i is missing: a position without a live price (NaN, read
\* as 0.0).
PriceMissing(r) == r.in_alloc /\ r.price = RZero

\* C1: with prevent_sell set, no action of the final plan is a sell
\* ("Verkopen") with a non-zero executed value.
C1_PreventSellNeverSells ==
    (pc = "done" /\ prevent_sell) =>
        \A i \in DOMAIN raw_actions :
            ~(raw_actions[i].Actie = "Verkopen" /\ raw_actions[i].Verschil # RZero)

\* C2: when the budget-fit correction has finished, either net is at most
\* budget + tolerance, or no non-crypto buy with at least one share is left.
C2_CorrectionFitsOrExhausts ==
    pc = "done" =>
        \/ ~OverBudget(raw_actions, extra_budget)
        \/ \A i \in DOMAIN raw_actions :
              ~(/\ raw_actions[i].Actie = "Kopen"
                /\ ~raw_actions[i].is_crypto
                /\ RLe(RInt(1), raw_actions[i].Aantal))

\* C3: a key whose price is missing, or that has no priced position, gets
\* action none with zero shares, zero executed value and zero fee.
C3_UnpricedKeyIsNone ==
    Planned =>
        \A i \in DOMAIN raw_actions :
            (PriceMissing(rows[i]) \/ ~rows[i].in_alloc) => IsNone(raw_actions[i])

\* The positive gaps after the buy-only scaling, in row order.
RECURSIVE ScaledBuyGaps(_, _, _, _)
ScaledBuyGaps(rs, nt, factor, ps) ==
    IF rs = <<>> THEN <<>>
    ELSE (IF RLt(RZero, Gap(Head(rs), nt))
          THEN <<ScaledDiff(Head(rs), nt, factor, ps)>> ELSE <<>>)
         \o ScaledBuyGaps(Tail(rs), nt, factor, ps)

\* C4: with prevent_sell set and the positive gaps summing to more than the
\* budget, the scaled positive gaps sum to the budget, for every budget >= 0.
C4_ScaledGapsSumToBudget ==
    LET nt == new_total_value(rows, extra_budget)
        factor == budget_scaling_factor(rows, extra_budget, prevent_sell)
    IN  (/\ Planned
         /\ prevent_sell
         /\ RLt(RInt(extra_budget), total_buys_needed(rows, nt)))
        => RSumSeq(ScaledBuyGaps(rows, nt, factor, prevent_sell)) = RInt(extra_budget)

\* What phase 1 computes for row i before the validation.
RowDiff(i) ==
    ScaledDiff(rows[i], new_total_value(rows, extra_budget),
               budget_scaling_factor(rows, extra_budget, prevent_sell), prevent_sell)

RowQty(i) ==
    QtyToTrade(rows[i].is_crypto, QtyCalculated(RowDiff(i), LastPrice(rows[i])))

RowExecuted(i) ==
    ExecutedDiff(rows[i].is_crypto, RowDiff(i), RowQty(i), LastPrice(rows[i]))

BelowFloor(i) ==
    \/ RLt(RAbs(RowExecuted(i)), RInt(1))
    \/ (~rows[i].is_crypto /\ RowQty(i) = RZero)

Without(actions, i) ==
    SubSeq(actions, 1, i - 1) \o SubSeq(actions, i + 1, Len(actions))

Day == 2
FiveYears == 4      \* pd.DateOffset(years=5), in ticks
EightDays == 2      \* pd.Timedelta(days=8), in ticks
NaT == 0 - 1
NaN == 0 - 1

Normalize(t) == t - (t % Day)

Products == <<"A", "B">>

\* map_to_ticker: the feed symbol of a product ("" when there is none).
TickerOf(p) == IF p = "A" THEN "T1" ELSE IF p = "B" THEN "T2" ELSE ""

Tickers == {"T1", "T2"}

\* A ledger row after enrich_transactions.  quantity is what parse_quantity
\* reads off the description: positive for "Koop", negative for "Verkoop",
\* 0.0 for every other row.
TradeKinds ==
    { [type |-> "Buy", quantity |-> 2], [type |-> "Sell", quantity |-> -1] }

TxDates == {NaT, 1, 4, 5}

LedgerRows ==
    { [product |-> k[1], isin |-> k[2], type |-> tk.type, quantity |-> tk.quantity,
       value_date |-> d] :
        k \in {<<"A", "i1">>, <<"A", "i2">>, <<"B", "i3">>},
        tk \in TradeKinds, d \in TxDates }
    \cup
    { [product |-> "A", isin |-> "i1", type |-> "Dividend", quantity |-> 0,
       value_date |-> 4] }

RECURSIVE SubsetsUpTo(_, _)
SubsetsUpTo(S, n) ==
    IF n = 0 THEN {{}}
    ELSE LET smaller == SubsetsUpTo(S, n - 1)
         IN  smaller \cup { T \cup {x} : T \in smaller, x \in S }

Ledgers == SubsetsUpTo(LedgerRows, MaxTx)

RECURSIVE SumQuantity(_)
SumQuantity(S) ==
    IF S = {} THEN 0
    ELSE LET r == CHOOSE r \in S : TRUE
         IN  r.quantity + SumQuantity(S \ {r})

\* build_positions: group the product rows by (product, isin), sum the
\* quantity, keep the groups with quantity > 0.
build_positions(df) ==
    LET product_rows == { r \in df : r.product # "" }
        groups == { <<r.product, r.isin>> : r \in product_rows }
        grouped == { [product |-> g[1], isin |-> g[2],
                      quantity |-> SumQuantity({ r \in product_rows :
                                       r.product = g[1] /\ r.isin = g[2] })] :
                     g \in groups }
    IN  { g \in grouped : g.quantity > 0 }

\* A price series is a sequence of samples [t, price], in index order.
Sample(t, price) == [t |-> t, price |-> price]

EmptyFeed == [daily |-> <<>>, hourly |-> <<>>]

\* ------------------------------------------------------------------------
\* build_portfolio_history: quantity over time
\* ------------------------------------------------------------------------
\* products with a ticker, in the order of df["product"].unique().
RECURSIVE ValidProductsOf(_, _)
ValidProductsOf(df, ps) ==
    IF ps = <<>> THEN <<>>
    ELSE (IF (\E r \in df : r.product = Head(ps)) /\ TickerOf(Head(ps)) # ""
          THEN <<Head(ps)>> ELSE <<>>) \o ValidProductsOf(df, Tail(ps))

valid_products(df) == ValidProductsOf(df, Products)

InSeq(x, sq) == \E i \in DOMAIN sq : sq[i] = x

\* Mutant: the rows whose value_date is NaT are not dropped.
relevant_tx_NoDropna(df) ==
    { r \in df : /\ r.type \in {"Buy", "Sell"}
                 /\ InSeq(r.product, valid_products(df)) }

\* relevant_tx: buys and sells of valid products, rows with NaT dropped.
relevant_tx(df) ==
    { r \in df : /\ r.type \in {"Buy", "Sell"}
                 /\ InSeq(r.product, valid_products(df))
                 /\ r.value_date # NaT }

\* tx_p after groupby("value_date")["quantity"].sum(): timestamp -> quantity.
tx_p(df, p) ==
    LET mine == { r \in relevant_tx(df) : r.product = p }
    IN  [t \in { r.value_date : r \in mine } |->
            SumQuantity({ r \in mine : r.value_date = t })]

RECURSIVE SumUpTo(_, _, _)
SumUpTo(f, ts, t) ==
    IF ts = {} THEN 0
    ELSE LET u == CHOOSE u \in ts : TRUE
         IN  (IF u <= t THEN f[u] ELSE 0) + SumUpTo(f, ts \ {u}, t)

\* Series.cumsum() over the sorted index.
CumSum(f) == [t \in DOMAIN f |-> SumUpTo(f, DOMAIN f, t)]

qty_on_tx(df, p) == CumSum(tx_p(df, p))

SetMax(S) == CHOOSE x \in S : \A y \in S : y <= x

\* Mutant: the forward fill takes the last entry strictly before t.
ReindexFfill_Strict(f, index) ==
    [t \in index |->
        LET before == { u \in DOMAIN f : u < t }
        IN  IF before = {} THEN 0 ELSE f[SetMax(before)]]

\* f.reindex(index, method='ffill').fillna(0)
ReindexFfill(f, index) ==
    [t \in index |->
        LET before == { u \in DOMAIN f : u <= t }
        IN  IF before = {} THEN 0 ELSE f[SetMax(before)]]

start_date == Normalize(Now - FiveYears)

full_daily_index == { t \in start_date..Now : (t - start_date) % Day = 0 }

daily_qty(df, p) ==
    LET q == qty_on_tx(df, p)
    IN  ReindexFfill(q, DOMAIN q \cup full_daily_index)

\* ------------------------------------------------------------------------
\* build_portfolio_history: the stitch of daily and intraday prices
\* ------------------------------------------------------------------------
cutoff == Now - EightDays

\* price_series_daily.index.normalize()
NormalizeIndex(series) ==
    [i \in DOMAIN series |-> Sample(Normalize(series[i].t), series[i].price)]

\* part1 = price_series_daily[index < cutoff]
RECURSIVE Before(_, _)
Before(series, c) ==
    IF series = <<>> THEN <<>>
    ELSE (IF Head(series).t < c THEN <<Head(series)>> ELSE <<>>)
         \o Before(Tail(series), c)

IsMonotonicIncreasing(series) ==
    \A i \in 1..(Len(series) - 1) : series[i].t <= series[i + 1].t

\* Every ordering of the samples numbered idxs that is sorted by timestamp.
RECURSIVE SortedOrders(_, _)
SortedOrders(idxs, series) ==
    IF idxs = {} THEN {<<>>}
    ELSE UNION { { <<series[i]>> \o rest :
                      rest \in SortedOrders(idxs \ {i}, series) } :
                 i \in { j \in idxs : \A k \in idxs : series[j].t <= series[k].t } }

\* Series.sort_index(): an index that is already monotonic is returned as it
\* is; otherwise the default kind='quicksort' sorts, and quicksort is not
\* stable: samples with equal timestamps come out in any order.
sort_index(series) ==
    IF IsMonotonicIncreasing(series) THEN {series}
    ELSE SortedOrders(DOMAIN series, series)

\* series[~series.index.duplicated(keep='last')]
RECURSIVE DropDuplicatedKeepLast(_)
DropDuplicatedKeepLast(series) ==
    IF series = <<>> THEN <<>>
    ELSE (IF \E i \in 2..Len(series) : series[i].t = Head(series).t
          THEN <<>> ELSE <<Head(series)>>)
         \o DropDuplicatedKeepLast(Tail(series))

part1(fd) == Before(NormalizeIndex(fd.daily), cutoff)

\* The possible values of full_price_series.
full_price_series(fd) ==
    { DropDuplicatedKeepLast(sorted) : sorted \in sort_index(part1(fd) \o fd.hourly) }

\* Mutant: the rows with quantity 0 are filtered out as well.
RECURSIVE FrameRows_DropZero(_, _, _, _)
FrameRows_DropZero(series, qty, p, ticker) ==
    IF series = <<>> THEN <<>>
    ELSE LET smp == Head(series)
         IN  (IF smp.price = NaN \/ qty[smp.t] = 0 THEN <<>>
              ELSE << [date |-> smp.t, price |-> smp.price,
                       quantity |-> qty[smp.t], product |-> p, ticker |-> ticker,
                       value |-> qty[smp.t] * smp.price] >>)
             \o FrameRows_DropZero(Tail(series), qty, p, ticker)

\* combined_df for one product, given its stitched price series: one row per
\* sample, rows without a price dropped.
RECURSIVE FrameRows(_, _, _, _)
FrameRows(series, qty, p, ticker) ==
    IF series = <<>> THEN <<>>
    ELSE LET smp == Head(series)
         IN  (IF smp.price = NaN THEN <<>>
              ELSE << [date |-> smp.t, price |-> smp.price,
                       quantity |-> qty[smp.t], product |-> p, ticker |-> ticker,
                       value |-> qty[smp.t] * smp.price] >>)
             \o FrameRows(Tail(series), qty, p, ticker)

IndexOf(series) == { series[i].t : i \in DOMAIN series }

combined_df(df, p, series) ==
    LET aligned_qty == ReindexFfill(daily_qty(df, p), IndexOf(series))
    IN  FrameRows(series, aligned_qty, p, TickerOf(p))

\* "if tx_p.empty: continue"
NoTransactions(df, p) == DOMAIN tx_p(df, p) = {}

\* "if price_series_daily.empty and price_series_hourly.empty: continue"
NoPrices(fd) == fd.daily = <<>> /\ fd.hourly = <<>>

\* The product is skipped: no transactions, or no price sample at all.
SkipsProduct(df, fd, p) == NoTransactions(df, p) \/ NoPrices(fd)

\* What one pass of the loop body can append to history_frames for p.
ProductFrames(df, fds, p) ==
    IF SkipsProduct(df, fds[TickerOf(p)], p) THEN {<<>>}
    ELSE { combined_df(df, p, series) : series \in full_price_series(fds[TickerOf(p)]) }

\* Every frame the whole function can return for a ledger and a feed.
RECURSIVE ConcatFrames(_, _, _)
ConcatFrames(df, fds, ps) ==
    IF ps = <<>> THEN {<<>>}
    ELSE { f \o rest : f \in ProductFrames(df, fds, Head(ps)),
                       rest \in ConcatFrames(df, fds, Tail(ps)) }

\* Mutant: a product without any price sample ends the whole function
\* ("return" where the code has "continue").
EarlyReturn_OnGap(df, fds) ==
    \/ df = {}
    \/ valid_products(df) = <<>>
    \/ relevant_tx(df) = {}
    \/ \E i \in DOMAIN valid_products(df) :
          /\ ~NoTransactions(df, valid_products(df)[i])
          /\ NoPrices(fds[TickerOf(valid_products(df)[i])])

\* The returns of an empty frame before the loop.
EarlyReturn(df, fds) ==
    df = {} \/ valid_products(df) = <<>> \/ relevant_tx(df) = {}

build_portfolio_history(df, fds) ==
    IF EarlyReturn(df, fds)
    THEN {<<>>}
    ELSE ConcatFrames(df, fds, valid_products(df))

\* ------------------------------------------------------------------------
\* Positions and history: inputs
\* ------------------------------------------------------------------------
DailyPrice == 10
HourlyPrice == 20

SetMin(S) == CHOOSE x \in S : \A y \in S : x <= y

\* Every series with ascending, distinct timestamps taken from ts and prices
\* taken from pv.
RECURSIVE SeriesOver(_, _)
SeriesOver(ts, pv) ==
    IF ts = {} THEN {<<>>}
    ELSE LET t == SetMin(ts)
             rest == SeriesOver(ts \ {t}, pv)
         IN  rest \cup { <<Sample(t, v)>> \o r : v \in pv, r \in rest }

\* Raw timestamps of the daily candles (3 is a candle stamped during day 1)
\* and of the intraday candles.
DailyRawTimes == {2, 3, 4, 6}
HourlyTimes == {1, 4, 5, 7}

StitchFeeds ==
    { [daily |-> d, hourly |-> h] :
        d \in SeriesOver(DailyRawTimes, {DailyPrice, NaN}),
        h \in SeriesOver(HourlyTimes, {HourlyPrice, NaN}) }

FullDaily == << Sample(0, DailyPrice), Sample(2, DailyPrice),
                Sample(4, DailyPrice), Sample(6, DailyPrice) >>
FullHourly == << Sample(4, HourlyPrice), Sample(5, HourlyPrice),
                 Sample(7, HourlyPrice) >>
GappyDaily == << Sample(0, DailyPrice), Sample(2, NaN), Sample(4, DailyPrice) >>
EarlyHourly == << Sample(1, HourlyPrice), Sample(4, NaN), Sample(5, HourlyPrice) >>

HistFeeds ==
    { EmptyFeed,
      [daily |-> FullDaily, hourly |-> <<>>],
      [daily |-> <<>>, hourly |-> FullHourly],
      [daily |-> FullDaily, hourly |-> FullHourly],
      [daily |-> GappyDaily, hourly |-> EarlyHourly] }

\* The feeds tried for the second ticker: no sample at all, or both series.
OtherFeeds == { EmptyFeed, [daily |-> FullDaily, hourly |-> FullHourly] }

\* ------------------------------------------------------------------------
\* Positions and history: the procedures as a state machine
\* ------------------------------------------------------------------------
HistStart ==
    /\ hpc = "start"
    /\ positions = {}
    /\ todo = <<>>
    /\ history_frames = <<>>
    /\ final_df = <<>>
    /\ stitched = <<>>
    /\ cum_qty = <<>>
    /\ PlanIdle
    /\ ServicesIdle

InitHist ==
    /\ ledger \in Ledgers
    /\ feed \in { [t \in Tickers |-> IF t = "T1" THEN f1 ELSE f2] :
                    f1 \in HistFeeds, f2 \in OtherFeeds }
    /\ HistStart

StitchLedger ==
    { [product |-> "A", isin |-> "i1", type |-> "Buy", quantity |-> 2,
       value_date |-> 1] }

InitStitch ==
    /\ ledger = StitchLedger
    /\ feed \in { [t \in Tickers |-> IF t = "T1" THEN f ELSE EmptyFeed] :
                    f \in StitchFeeds }
    /\ HistStart

\* positions = build_positions(df)
BuildPositions ==
    /\ hpc = "start"
    /\ positions' = build_positions(ledger)
    /\ hpc' = "positions"
    /\ UNCHANGED <<ledger, feed, todo, history_frames, final_df, stitched, cum_qty>>
    /\ UNCHANGED <<planVars, svcVars>>

\* build_portfolio_history up to the loop: the early returns.
HistoryBegin ==
    /\ hpc = "positions"
    /\ IF EarlyReturn(ledger, feed)
       THEN /\ hpc' = "done"
            /\ todo' = <<>>
       ELSE /\ hpc' = "loop"
            /\ todo' = valid_products(ledger)
    /\ UNCHANGED <<ledger, feed, positions, history_frames, final_df, stitched,
                   cum_qty>>
    /\ UNCHANGED <<planVars, svcVars>>

\* One pass of "for p in valid_products".
HistoryProduct ==
    /\ hpc = "loop"
    /\ todo # <<>>
    /\ LET p == Head(todo)
           fd == feed[TickerOf(p)]
           q == qty_on_tx(ledger, p)
       IN  /\ todo' = Tail(todo)
           /\ IF NoTransactions(ledger, p)
              THEN UNCHANGED <<history_frames, stitched, cum_qty>>
              ELSE /\ cum_qty' = (p :> q[SetMax(DOMAIN q)]) @@ cum_qty
                   /\ IF NoPrices(fd)
                      THEN UNCHANGED <<history_frames, stitched>>
                      ELSE \E series \in full_price_series(fd) :
                              LET frame == combined_df(ledger, p, series)
                              IN  /\ stitched' = (p :> series) @@ stitched
                                  /\ history_frames' =
                                        IF frame # <<>>
                                        THEN Append(history_frames, frame)
                                        ELSE history_frames
    /\ UNCHANGED <<hpc, ledger, feed, positions, final_df>>
    /\ UNCHANGED <<planVars, svcVars>>

RECURSIVE Concat(_)
Concat(frames) == IF frames = <<>> THEN <<>> ELSE Head(frames) \o Concat(Tail(frames))

\* After the loop: pd.concat(history_frames), or an empty frame.
HistoryEnd ==
    /\ hpc = "loop"
    /\ todo = <<>>
    /\ final_df' = Concat(history_frames)
    /\ hpc' = "done"
    /\ UNCHANGED <<ledger, feed, positions, todo, history_frames, stitched, cum_qty>>
    /\ UNCHANGED <<planVars, svcVars>>

NextHist == BuildPositions \/ HistoryBegin \/ HistoryProduct \/ HistoryEnd

SpecHist == InitHist /\ [][NextHist]_vars

SpecStitch == InitStitch /\ [][NextHist]_vars

\* ------------------------------------------------------------------------
\* Positions and history: claims
\* ------------------------------------------------------------------------
NoDuplicateTimestamps(series) ==
    \A i, j \in DOMAIN series : series[i].t = series[j].t => i = j

PriceAt(series, t) == { series[i].price : i \in { j \in DOMAIN series : series[j].t = t } }

\* C6: the stitched series has no two samples with the same timestamp, and
\* where a daily sample older than the cutoff and an intraday sample share a
\* timestamp, the stitched series holds the intraday price.
C6_StitchIntradayWins ==
    \A p \in DOMAIN stitched :
        LET fd == feed[TickerOf(p)]
            older == part1(fd)
        IN  /\ NoDuplicateTimestamps(stitched[p])
            /\ \A i \in DOMAIN older, j \in DOMAIN fd.hourly :
                  older[i].t = fd.hourly[j].t =>
                      PriceAt(stitched[p], older[i].t) = {fd.hourly[j].price}

\* The trade events of a product: its buys and sells with a valid timestamp.
EventsOf(df, p) ==
    { r \in df : r.product = p /\ r.type \in {"Buy", "Sell"} /\ r.value_date # NaT }

AllRows == final_df \o Concat(history_frames)

\* C7: in every output row of an instrument, quantity is the sum of the signed
\* deltas of all its trade events at or before the row's timestamp (0 before
\* the first trade), and value = quantity * price.
C7_RowQuantityIsSumOfDeltas ==
    \A i \in DOMAIN AllRows :
        LET r == AllRows[i]
        IN  /\ r.quantity =
                 SumQuantity({ e \in EventsOf(ledger, r.product) : e.value_date <= r.date })
            /\ r.value = r.quantity * r.price

\* A row between trades: two events at one instant before it, one after it.
C7_Witness ==
    /\ hpc = "done"
    /\ \E i \in DOMAIN final_df :
          LET r == final_df[i]
              ev == EventsOf(ledger, r.product)
          IN  /\ r.quantity # 0
              /\ \E e1, e2 \in ev : e1 # e2 /\ e1.value_date = e2.value_date
                                     /\ e1.value_date <= r.date
              /\ \E e3 \in ev : e3.value_date > r.date

\* C8: the cumulative quantity the reconstruction reaches at an instrument's
\* latest trade timestamp equals the quantity of its Position.
C8_CumQtyEqualsPosition ==
    hpc = "done" =>
        \A pos \in positions :
            pos.product \in DOMAIN cum_qty => cum_qty[pos.product] = pos.quantity

HasRowsOf(frame, p) == \E i \in DOMAIN frame : frame[i].product = p

\* C9: with no trade event (no buy/sell row, or none with a valid timestamp)
\* the reconstruction returns an empty series, and an instrument without trade
\* events contributes no rows.
C9_NoEventsNoRows ==
    hpc = "done" =>
        /\ (\A i \in DOMAIN Products : EventsOf(ledger, Products[i]) = {})
              => final_df = <<>>
        /\ \A i \in DOMAIN Products :
              EventsOf(ledger, Products[i]) = {} => ~HasRowsOf(final_df, Products[i])

\* An instrument with ledger rows and prices but no trade event is left out
\* while another one fills the series.
C9_Witness ==
    /\ hpc = "done"
    /\ final_df # <<>>
    /\ \E i \in DOMAIN Products :
          /\ \E r \in ledger : r.product = Products[i]
          /\ EventsOf(ledger, Products[i]) = {}
          /\ ~NoPrices(feed[TickerOf(Products[i])])

\* C10: an instrument for which neither feed yields a sample contributes no
\* rows, and the rows of the others are those produced without it in the
\* ledger.
C10_GapIsolation ==
    hpc = "done" =>
        \A i \in DOMAIN Products :
            LET p == Products[i]
            IN  (/\ \E r \in ledger : r.product = p
                 /\ NoPrices(feed[TickerOf(p)]))
                => /\ ~HasRowsOf(final_df, p)
                   /\ final_df \in
                        build_portfolio_history({ r \in ledger : r.product # p }, feed)

\* A gap instrument with trades next to an instrument that has rows.
C10_Witness ==
    /\ hpc = "done"
    /\ final_df # <<>>
    /\ \E i \in DOMAIN Products :
          /\ EventsOf(ledger, Products[i]) # {}
          /\ NoPrices(feed[TickerOf(Products[i])])

\* ------------------------------------------------------------------------
\* Ticker resolver (managers.py): inputs
\* ------------------------------------------------------------------------
MaxCalls == 3   \* resolve_ticker calls in one behaviour

\* Python truthiness of an optional string.
Truthy(x) == x # None /\ x # ""

\* product_str values: empty, a ticker root that needs a market suffix, a
\* name of the hardcoded table, a name only the search knows.
Names == {"", "VWCE", "Bitcoin", "NVIDIA"}

Isins == {None, "IE00BK5BQT80", "US67066G1040"}

\* Symbols the price feed may hold data for.  A feed symbol carries at most
\* one market suffix.
FeedSymbols == {"VWCE.DE", "BTC-EUR", "NVD.DE", "NVDA"}

\* A mapping string of the form "TICKER | ISIN", as the config file may hold.
PipedMapping == "NVDA | US67066G1040"

\* The mappings the config file holds when the ConfigManager is built.
InitMappings ==
    { <<>>,
      [k \in {"NVIDIA"} |-> PipedMapping],
      [k \in {"US67066G1040"} |-> "NVD.DE"] }

\* r.json().get('quotes', []) of the search endpoint for a query.
SearchIndex(query) ==
    CASE query = "IE00BK5BQT80" ->
           << [symbol |-> "VWCE.DE", quoteType |-> "ETF", exchange |-> "GER"] >>
      [] query = "US67066G1040" ->
           << [symbol |-> "NVDA", quoteType |-> "EQUITY", exchange |-> "NMS"],
              [symbol |-> "NVD.DE", quoteType |-> "EQUITY", exchange |-> "GER"] >>
      [] query = "NVIDIA" ->
           << [symbol |-> "NVDA", quoteType |-> "EQUITY", exchange |-> "NMS"] >>
      [] query = "Bitcoin" ->
           << [symbol |-> "BTC-USD", quoteType |-> "CRYPTOCURRENCY",
               exchange |-> "CCC"] >>
      [] OTHER -> <<>>

\* ------------------------------------------------------------------------
\* Ticker resolver: ConfigManager and PriceManager methods
\* ------------------------------------------------------------------------
\* ConfigManager.get_ticker_for_product
get_ticker_for_product(m, product, isin) ==
    IF product \in DOMAIN m THEN m[product]
    ELSE IF Truthy(isin) /\ isin \in DOMAIN m THEN m[isin]
    ELSE None

\* Mutant: the mapping is not stored.
set_mapping_Nothing(m, key, value) == m

\* Mutant: the mapping replaces the whole dict.
set_mapping_Only(m, key, value) == [k \in {key} |-> value]

\* ConfigManager.set_mapping
set_mapping(m, key, value) ==
    [k \in DOMAIN m \cup {key} |-> IF k = key THEN value ELSE m[k]]

\* PriceManager._cache: created empty and never written.
ticker_cache == {}

\* PriceManager._validate_ticker: TRUE without a request when the ticker is
\* in _cache, else one history request; an exception counts as FALSE.
validate_ticker(ticker, valid) ==
    [ok |-> ticker \in ticker_cache \/ ticker \in valid,
     probes |-> IF ticker \in ticker_cache THEN {} ELSE {ticker}]

suffixes == <<"", ".DE", ".F", ".AS">>

\* [p.strip() for p in s.split("|")], or [s.strip()]
Candidates(s) ==
    IF s = PipedMapping THEN <<"NVDA", "US67066G1040">> ELSE <<s>>

\* The tickers of the validation loop, in the order they are tried.
RECURSIVE Attempts(_)
Attempts(cands) ==
    IF cands = <<>> THEN <<>>
    ELSE [i \in 1..Len(suffixes) |-> Head(cands) \o suffixes[i]]
         \o Attempts(Tail(cands))

\* Tries the tickers in order until one validates.
RECURSIVE FirstValid(_, _, _)
FirstValid(tickers, valid, probed) ==
    IF tickers = <<>> THEN [ticker |-> None, probes |-> probed]
    ELSE LET v == validate_ticker(Head(tickers), valid)
         IN  IF v.ok
             THEN [ticker |-> Head(tickers), probes |-> probed \cup v.probes]
             ELSE FirstValid(Tail(tickers), valid, probed \cup v.probes)

\* PriceManager._resolve_input_string
resolve_input_string(s, strict, valid) ==
    IF ~Truthy(s) THEN [ticker |-> None, probes |-> {}]
    ELSE LET candidates == Candidates(s)
             found == FirstValid(Attempts(candidates), valid, {})
         IN  IF found.ticker # None THEN found
             ELSE IF strict THEN found
             ELSE [ticker |-> candidates[1], probes |-> found.probes]

\* Step 3 of resolve_ticker: the hardcoded names.
resolved_legacy(product_str) ==
    IF ~Truthy(product_str) THEN None
    ELSE IF product_str = "Vanguard FTSE All-World" THEN "VWCE.DE"
    ELSE IF product_str = "Bitcoin" THEN "BTC-EUR"
    ELSE IF product_str = "Ethereum" THEN "ETH-EUR"
    ELSE None

\* PriceManager._get_yf_search_quotes: the quotes and the requests issued.
get_yf_search_quotes(query, up) ==
    IF ~Truthy(query) THEN [quotes |-> <<>>, requests |-> 0]
    ELSE [quotes |-> IF up THEN SearchIndex(query) ELSE <<>>, requests |-> 1]

valid_types == {"EQUITY", "ETF", "MUTUALFUND"}

preferred_exchanges == {"STU", "GER", "AMS", "PAR", "MIL", "BRU", "DUB"}

RECURSIVE SelectQuotes(_, _)
SelectQuotes(quotes, preferred_only) ==
    IF quotes = <<>> THEN <<>>
    ELSE LET q == Head(quotes)
             keep == /\ Truthy(q.symbol)
                     /\ q.quoteType \in valid_types
                     /\ (preferred_only => q.exchange \in preferred_exchanges)
         IN  (IF keep THEN <<q.symbol>> ELSE <<>>)
             \o SelectQuotes(Tail(quotes), preferred_only)

\* Mutant: the pass over the preferred exchanges is left out.
select_best_quote_AnyExchange(quotes, valid) ==
    FirstValid(SelectQuotes(quotes, FALSE), valid, {})

\* PriceManager._select_best_quote: first pass over the preferred exchanges,
\* second pass over every valid quote.
select_best_quote(quotes, valid) ==
    FirstValid(SelectQuotes(quotes, TRUE) \o SelectQuotes(quotes, FALSE),
               valid, {})

\* PriceManager.resolve_ticker: the returned ticker, the step that answered,
\* the search requests and feed probes issued, and the mappings afterwards.
resolve_ticker(m, product_str, isin, valid, up) ==
    LET mapped == get_ticker_for_product(m, product_str, isin)
        r1 == IF Truthy(mapped)
              THEN resolve_input_string(mapped, FALSE, valid)
              ELSE [ticker |-> None, probes |-> {}]
        r2 == resolve_input_string(product_str, TRUE, valid)
        legacy == resolved_legacy(product_str)
        mapping_key == IF Truthy(isin) THEN isin ELSE product_str
        s_isin == IF Truthy(isin) THEN get_yf_search_quotes(isin, up)
                  ELSE [quotes |-> <<>>, requests |-> 0]
        s_name == IF Truthy(product_str)
                  THEN get_yf_search_quotes(product_str, up)
                  ELSE [quotes |-> <<>>, requests |-> 0]
        quotes == s_isin.quotes \o s_name.quotes
        r4 == IF quotes # <<>> THEN select_best_quote(quotes, valid)
              ELSE [ticker |-> None, probes |-> {}]
        requests == s_isin.requests + s_name.requests
        Save(t) == IF Truthy(mapping_key) THEN set_mapping(m, mapping_key, t)
                   ELSE m
    IN  IF Truthy(r1.ticker)
        THEN [result |-> r1.ticker, step |-> "cache", searches |-> 0,
              probes |-> r1.probes, mappings |-> m]
        ELSE IF Truthy(r2.ticker)
        THEN [result |-> r2.ticker, step |-> "direct", searches |-> 0,
              probes |-> r1.probes \cup r2.probes,
              mappings |-> Save(r2.ticker)]
        ELSE IF Truthy(legacy)
        THEN [result |-> legacy, step |-> "legacy", searches |-> 0,
              probes |-> r1.probes \cup r2.probes, mappings |-> Save(legacy)]
        ELSE IF Truthy(r4.ticker)
        THEN [result |-> r4.ticker, step |-> "search", searches |-> requests,
              probes |-> r1.probes \cup r2.probes \cup r4.probes,
              mappings |-> Save(r4.ticker)]
        ELSE [result |-> None, step |-> "none", searches |-> requests,
              probes |-> r1.probes \cup r2.probes \cup r4.probes,
              mappings |-> m]

\* ------------------------------------------------------------------------
\* Ticker resolver: a sequence of resolve_ticker calls
\* ------------------------------------------------------------------------

\* The record of "no call made yet".
NoCall ==
    [product |-> "", isin |-> None, result |-> None, step |-> "nocall",
     searches |-> 0, probes |-> {}, before |-> <<>>, feed |-> {},
     up |-> FALSE]

InitResolve ==
    /\ mappings \in InitMappings
    /\ yf_valid \in SUBSET FeedSymbols
    /\ search_up \in BOOLEAN
    /\ last = NoCall
    /\ prev = NoCall
    /\ validated = {}
    /\ ncalls = 0
    /\ PlanIdle
    /\ HistIdle
    /\ WorkerIdle
    /\ AccessIdle
    /\ SelectIdle
    /\ ConfigIdle

\* pm.resolve_ticker(product_str, isin)
Resolve ==
    /\ ncalls < MaxCalls
    /\ \E product_str \in Names, isin \in Isins :
          LET r == resolve_ticker(mappings, product_str, isin, yf_valid,
                                  search_up)
          IN  /\ mappings' = r.mappings
              /\ last' = [product |-> product_str, isin |-> isin,
                          result |-> r.result, step |-> r.step,
                          searches |-> r.searches, probes |-> r.probes,
                          before |-> mappings, feed |-> yf_valid,
                          up |-> search_up]
              /\ validated' = validated \cup (r.probes \cap yf_valid)
    /\ prev' = last
    /\ ncalls' = ncalls + 1
    /\ UNCHANGED <<yf_valid, search_up>>
    /\ UNCHANGED <<planVars, histVars, workVars, accVars, selVars, cfgVars>>

\* The network goes down: every history and search request raises.
FeedOutage ==
    /\ ncalls < MaxCalls
    /\ yf_valid # {} \/ search_up
    /\ yf_valid' = {}
    /\ search_up' = FALSE
    /\ UNCHANGED <<mappings, last, prev, validated, ncalls>>
    /\ UNCHANGED <<planVars, histVars, workVars, accVars, selVars, cfgVars>>

NextResolve == Resolve \/ FeedOutage

SpecResolve == InitResolve /\ [][NextResolve]_vars

\* C11: when a resolve returned a ticker, the next resolve of the same
\* (name, identifier) pair against the same feed returns the same ticker and
\* issues no search request.
C11_SecondResolveFromCache ==
    (/\ prev.step # "nocall"
     /\ last.step # "nocall"
     /\ prev.result # None
     /\ last.product = prev.product
     /\ last.isin = prev.isin
     /\ last.feed = prev.feed
     /\ last.up = prev.up)
    => (last.result = prev.result /\ last.searches = 0)

\* The first call was answered by the search, the second by the cache.
C11_Witness ==
    /\ prev.step # "nocall"
    /\ last.step # "nocall"
    /\ prev.step = "search"
    /\ prev.searches > 0
    /\ last.product = prev.product
    /\ last.isin = prev.isin
    /\ last.feed = prev.feed
    /\ last.step = "cache"
    /\ last.result = prev.result

\* C12: when the mappings hold an entry for the identifier and a different
\* entry for the name, the lookup of resolve_ticker uses the identifier's.
C12_IdentifierBeforeName ==
    (/\ last.step # "nocall"
     /\ Truthy(last.isin)
     /\ last.isin \in DOMAIN last.before
     /\ last.product \in DOMAIN last.before
     /\ last.before[last.isin] # last.before[last.product])
    => get_ticker_for_product(last.before, last.product, last.isin)
         = last.before[last.isin]

\* C13: a resolve answered by direct validation, the hardcoded table or the
\* search writes exactly one mapping, under the identifier when one is given
\* and under the name otherwise; a resolve that returns None or is answered
\* from the mappings leaves them unchanged; no resolve deletes a mapping;
\* writing the mapping a second time changes nothing.
C13_CacheWrites ==
    last.step # "nocall" =>
      LET key == IF Truthy(last.isin) THEN last.isin ELSE last.product
      IN  /\ DOMAIN last.before \subseteq DOMAIN mappings
          /\ last.step \in {"direct", "legacy", "search"} =>
                /\ DOMAIN mappings = DOMAIN last.before \cup {key}
                /\ mappings[key] = last.result
                /\ \A k \in DOMAIN last.before \ {key} :
                      mappings[k] = last.before[k]
                /\ set_mapping(mappings, key, last.result) = mappings
          /\ last.step \in {"cache", "none"} => mappings = last.before

\* A resolve wrote a mapping next to an existing one.
C13_Witness ==
    /\ last.step # "nocall"
    /\ last.step \in {"direct", "legacy", "search"}
    /\ last.before # <<>>
    /\ mappings # last.before
    /\ Truthy(last.isin)
    /\ mappings[last.isin] = last.result

\* C14: after a key's ticker has been validated against the feed and stored,
\* a later resolve of that key issues no validation request to the feed.
C14_ValidatedOnce ==
    (/\ prev.step # "nocall"
     /\ last.step # "nocall"
     /\ prev.step \in {"direct", "search"}
     /\ last.product = prev.product
     /\ last.isin = prev.isin)
    => last.probes = {}

\* C15: a ticker returned by the cache, direct-validation or search step is
\* one the feed has returned a sample for, in this call or an earlier one.
C15_ReturnsOnlyValidated ==
    (/\ last.step # "nocall"
     /\ last.step \in {"cache", "direct", "search"})
    => last.result \in validated

\* ------------------------------------------------------------------------
\* Price accessors (managers.py 342-413, app.py 724-769)
\* ------------------------------------------------------------------------
\* What a call gives back: a float, pd.NA, a DataFrame, or a raised exception.
Float(x) == [kind |-> "float", v |-> x, rows |-> <<>>]

NA == [kind |-> "NA", v |-> 0, rows |-> <<>>]

Frame(r) == [kind |-> "frame", v |-> 0, rows |-> r]

Raised == [kind |-> "raise", v |-> 0, rows |-> <<>>]

\* Candles of a yf history frame: the close and whether the candle's
\* timestamp falls on today.
Candles == [close : {4, 6}, today : BOOLEAN]

\* Outcomes of yf.Ticker(t).history(...): an exception or a frame.
HistOutcomes ==
    {Raised} \cup { Frame(r) : r \in {<<>>} \cup { <<c>> : c \in Candles }
                                    \cup { <<c1, c2>> : c1, c2 \in Candles } }

\* Outcomes of yf.Ticker(t).fast_info.last_price: an exception, None, a price.
FastOutcomes == {Raised, Float(0), Float(5)}

AccTickers == {None, "", "VWCE.DE"}

Accessors ==
    {"get_live_price", "get_history", "get_prev_close", "get_midnight_price",
     "fetch_prev_close", "fetch_midnight_price"}

\* Mutant: the exception is not caught.
Except_Propagate(r, fallback) == r

\* try: ... except: <fallback>
Except(r, fallback) == IF r.kind = "raise" THEN fallback ELSE r

\* PriceManager._fetch_live_price_cached
fetch_live_price_cached(fast, hist) ==
    Except(IF fast.kind = "raise" THEN Raised
           ELSE IF fast.v # 0 THEN fast
           ELSE IF hist.kind = "raise" THEN Raised
           ELSE IF hist.rows # <<>>
                THEN Float(hist.rows[Len(hist.rows)].close)
           ELSE Float(0),
           Float(0))

\* PriceManager.get_live_price
get_live_price(ticker, fast, hist) ==
    IF ~Truthy(ticker) THEN Float(0) ELSE fetch_live_price_cached(fast, hist)

\* PriceManager.get_history / _fetch_history_cached
get_history(ticker, hist) == Except(hist, Frame(<<>>))

\* The value both previous-close functions take from a frame, or nothing.
PrevCloseOf(hist, nothing) ==
    IF hist.kind = "raise" THEN Raised
    ELSE IF Len(hist.rows) >= 2 THEN Float(hist.rows[Len(hist.rows) - 1].close)
    ELSE IF Len(hist.rows) = 1 THEN Float(hist.rows[1].close)
    ELSE nothing

\* PriceManager.get_prev_close / _fetch_prev_close_cached
get_prev_close(ticker, hist) ==
    IF ~Truthy(ticker) THEN Float(0)
    ELSE Except(PrevCloseOf(hist, Float(0)), Float(0))

\* The close of the first candle of today, or nothing.
MidnightOf(hist, nothing) ==
    IF hist.kind = "raise" THEN Raised
    ELSE LET todays == { i \in 1..Len(hist.rows) : hist.rows[i].today }
         IN  IF todays = {} THEN nothing
             ELSE Float(hist.rows[SetMin(todays)].close)

\* PriceManager.get_midnight_price / _fetch_midnight_price_cached
get_midnight_price(ticker, hist) ==
    IF ~Truthy(ticker) THEN Float(0)
    ELSE Except(MidnightOf(hist, Float(0)), Float(0))

\* app.py fetch_prev_close, for one ticker of the list
fetch_prev_close(ticker, hist) == Except(PrevCloseOf(hist, NA), NA)

\* app.py fetch_midnight_price, for one ticker of the list
fetch_midnight_price(ticker, hist) == Except(MidnightOf(hist, NA), NA)

CallAccessor(fn, ticker, fast, hist) ==
    CASE fn = "get_live_price" -> get_live_price(ticker, fast, hist)
      [] fn = "get_history" -> get_history(ticker, hist)
      [] fn = "get_prev_close" -> get_prev_close(ticker, hist)
      [] fn = "get_midnight_price" -> get_midnight_price(ticker, hist)
      [] fn = "fetch_prev_close" -> fetch_prev_close(ticker, hist)
      [] fn = "fetch_midnight_price" -> fetch_midnight_price(ticker, hist)

NoAccess ==
    [fn |-> "none", ticker |-> None, fast |-> Raised, hist |-> Raised,
     ret |-> Raised]

InitAccess ==
    /\ acc = NoAccess
    /\ PlanIdle
    /\ HistIdle
    /\ ResolverIdle
    /\ WorkerIdle
    /\ SelectIdle
    /\ ConfigIdle

\* One accessor call that reaches the feed (no st.cache_data hit).  The feed
\* has no data for a null or empty ticker.
Access ==
    /\ \E fn \in Accessors, ticker \in AccTickers,
          fast \in FastOutcomes, hist \in HistOutcomes :
          /\ ~Truthy(ticker) =>
                (fast \in {Raised, Float(0)} /\ hist \in {Raised, Frame(<<>>)})
          /\ acc' = [fn |-> fn, ticker |-> ticker, fast |-> fast,
                     hist |-> hist,
                     ret |-> CallAccessor(fn, ticker, fast, hist)]
    /\ UNCHANGED <<planVars, histVars, resVars, workVars, selVars, cfgVars>>

NextAccess == Access

SpecAccess == InitAccess /\ [][NextAccess]_vars

\* The value that stands for "unknown" in each accessor.
Sentinel(fn) ==
    IF fn = "get_history" THEN Frame(<<>>)
    ELSE IF fn \in {"fetch_prev_close", "fetch_midnight_price"} THEN NA
    ELSE Float(0)

HistFailed(a) == a.hist.kind = "raise" \/ a.hist.rows = <<>>

FeedFailed(a) ==
    IF a.fn = "get_live_price"
    THEN a.fast.kind = "raise" \/ (a.fast.v = 0 /\ HistFailed(a))
    ELSE HistFailed(a)

\* C16: no accessor call raises; for a null or empty ticker, and when the
\* feed raises or returns nothing, the call returns the sentinel (0.0 in
\* PriceManager, NA in the app helpers, an empty frame for the history).
C16_AccessorsDegrade ==
    acc.fn # "none" =>
        /\ acc.ret.kind # "raise"
        /\ (~Truthy(acc.ticker) \/ FeedFailed(acc)) => acc.ret = Sentinel(acc.fn)

\* The feed raised during a call on a real ticker and the sentinel came back.
C16_Witness ==
    /\ acc.fn \in {"get_prev_close", "fetch_midnight_price"}
    /\ Truthy(acc.ticker)
    /\ acc.hist.kind = "raise"
    /\ acc.ret = Sentinel(acc.fn)

\* ------------------------------------------------------------------------
\* Background price manager (app.py 586-720): inputs
\* ------------------------------------------------------------------------
\* The view thread that calls update_watchlist, get_price and
\* fetch_live_prices.
Readers == {"r1"}

\* Tickers the views ask for: one scraped from Tradegate, one crypto pair,
\* one known to yfinance only.
WatchTickers == {"VWCE.DE", "BTC-EUR", "AAPL"}

\* PRICE_MAPPING_BY_ISIN, inverted: ticker -> isin
ticker_to_isin ==
    [t \in {"VWCE.DE", "ASWC.DE", "BTC-EUR", "ETH-EUR"} |->
        CASE t = "VWCE.DE" -> "IE00BK5BQT80"
          [] t = "ASWC.DE" -> "IE000OJ5TQP4"
          [] t = "BTC-EUR" -> "XFC000A2YY6Q"
          [] t = "ETH-EUR" -> "XFC000A2YY6X"]

\* isin.startswith("XFC")
StartsWithXFC(isin) == isin \in {"XFC000A2YY6Q", "XFC000A2YY6X"}

\* alternatives = {"VWCE.DE": ["VWCE.F", "VWCE.SG"]}
alternatives == [t \in {"VWCE.DE"} |-> <<"VWCE.F", "VWCE.SG">>]

\* Arguments the views pass as "tickers".
TickerLists ==
    { <<"VWCE.DE">>, <<"BTC-EUR", "">>, <<"AAPL", "VWCE.DE">>, <<>> }

\* What fetch_tradegate_price returns: None (here 0) or the scraped price.
TradegatePrices == {0, 1}

\* What _get_latest returns for a downloaded symbol: 0.0 or the last close.
YfPrices == {0, 2}

\* prices.get(ticker) of an absent ticker.
NoPrice == 0 - 1

\* ------------------------------------------------------------------------
\* Background price manager: methods
\* ------------------------------------------------------------------------
\* Mutant: the new list replaces the set.
WatchlistUpdate_Replace(watch, tickers) ==
    { tickers[i] : i \in { j \in 1..Len(tickers) : Truthy(tickers[j]) } }

\* self.tickers_to_watch.update([t for t in tickers if t])
WatchlistUpdate(watch, tickers) ==
    watch \cup { tickers[i] : i \in { j \in 1..Len(tickers) : Truthy(tickers[j]) } }

\* self.prices.get(ticker)
PriceGet(p, ticker) == IF ticker \in DOMAIN p THEN p[ticker] ELSE NoPrice

\* Mutant: the lookup inserts a default entry (dict.setdefault).
PricesAfterGet_SetDefault(p, ticker) ==
    [t \in DOMAIN p \cup {ticker} |-> IF t \in DOMAIN p THEN p[t] ELSE 0]

\* self.prices after self.prices.get(ticker): the lookup does not write.
PricesAfterGet(p, ticker) == p

\* Mutant: leaving the with block keeps the lock.
WithLockExit_Keep(holder) == holder

\* Leaving "with self.lock:" releases the lock.
WithLockExit(holder) == "free"

\* Mutant: the loop does not test the flag.
LoopTest_Always(flag) == TRUE

\* "while self.running"
LoopTest(flag) == flag

\* items_to_fetch: the tickers scraped from Tradegate.
items_to_fetch(watchlist) ==
    { t \in watchlist : t \in DOMAIN ticker_to_isin
                        /\ ~StartsWithXFC(ticker_to_isin[t]) }

\* results after the parallel scrape: "if price: results[t] = price"
ScrapeResults(watchlist, tg) ==
    [t \in { u \in items_to_fetch(watchlist) : tg[u] # 0 } |-> tg[t]]

\* Mutant: the download list (with the alternatives) is iterated instead.
yf_tickers_Download(watchlist, scraped) ==
    { t \in watchlist : t \notin DOMAIN ticker_to_isin }
    \cup { t \in watchlist : t \notin DOMAIN scraped }
    \cup (IF "VWCE.DE" \in watchlist /\ "VWCE.DE" \notin DOMAIN scraped
          THEN {"VWCE.F", "VWCE.SG"} ELSE {})

\* yf_tickers after "yf_tickers.extend(yf_needed)" and the deduplication.
yf_tickers(watchlist, scraped) ==
    { t \in watchlist : t \notin DOMAIN ticker_to_isin }
    \cup { t \in watchlist : t \notin DOMAIN scraped }

RECURSIVE MaxLatest(_, _)
MaxLatest(cands, latest) ==
    IF cands = <<>> THEN 0
    ELSE LET rest == MaxLatest(Tail(cands), latest)
             val == latest[Head(cands)]
         IN  IF val > rest THEN val ELSE rest

\* best_val of a ticker: the largest latest close among the ticker and its
\* alternatives.
best_val(t, latest) ==
    MaxLatest(<<t>> \o (IF t \in DOMAIN alternatives THEN alternatives[t]
                        ELSE <<>>), latest)

\* Symbols yf.download may be asked for.
DownloadSymbols == WatchTickers \cup {"VWCE.F", "VWCE.SG"}

\* The results dict of one cycle.  tg: what the scrape returns per ticker;
\* yf_ok: yf.download does not raise; latest: _get_latest per symbol.
FetchResults(watchlist, tg, yf_ok, latest) ==
    LET scraped == ScrapeResults(watchlist, tg)
        yfs == yf_tickers(watchlist, scraped)
        found == IF yf_ok THEN { t \in yfs : best_val(t, latest) > 0 } ELSE {}
    IN  [t \in DOMAIN scraped \cup found |->
            IF t \in found THEN best_val(t, latest) ELSE scraped[t]]

\* Mutant: the price map is replaced by the results of the cycle.
PricesUpdate_Assign(p, r) == r

\* self.prices.update(results)
PricesUpdate(p, r) ==
    [t \in DOMAIN p \cup DOMAIN r |-> IF t \in DOMAIN r THEN r[t] ELSE p[t]]

\* ------------------------------------------------------------------------
\* Background price manager: the worker thread, the readers, the shutdown
\* ------------------------------------------------------------------------
NoArg == [fn |-> "none", tickers |-> <<>>, todo |-> <<>>]

\* PriceManager.__init__: the thread is started.
InitWorker ==
    /\ prices = <<>>
    /\ tickers_to_watch = {}
    /\ lock = "free"
    /\ running = TRUE
    /\ wpc = "loop"
    /\ current_watchlist = {}
    /\ results = <<>>
    /\ rpc = [r \in Readers |-> "idle"]
    /\ rarg = [r \in Readers |-> NoArg]
    /\ rret = [r \in Readers |-> NoPrice]
    /\ stop_cycles = 0
    /\ stop_writes = 0
    /\ slept = NoSleep
    /\ PlanIdle
    /\ HistIdle
    /\ ResolverIdle
    /\ AccessIdle
    /\ SelectIdle
    /\ ConfigIdle

Saturate(n) == IF n < 2 THEN n + 1 ELSE n

\* pd.Timestamp.now(tz='Europe/Amsterdam'): weekday() is 0 for Monday, 6 for
\* Sunday.  The clocks tried sit on both sides of every test.
VenueClocks ==
    { [weekday |-> d, hour |-> h] : d \in {4, 5}, h \in {8, 9, 21, 22} }

\* Mutant: the weekend is not tested.
is_tradegate_open_NoWeekend(now) == 9 <= now.hour /\ now.hour < 22

is_tradegate_open(now) ==
    IF now.weekday > 4 THEN FALSE
    ELSE 9 <= now.hour /\ now.hour < 22

OpenInterval == 10
ClosedInterval == 60
EmptyInterval == 5

sleep_duration(now) ==
    IF is_tradegate_open(now) THEN OpenInterval ELSE ClosedInterval

\* "while self.running:": the next pass of the loop begins, or the thread
\* ends.
WLoop ==
    /\ wpc = "loop"
    /\ wpc' = IF LoopTest(running) THEN "snap_wait" ELSE "exited"
    /\ stop_cycles' = IF LoopTest(running) /\ ~running
                      THEN Saturate(stop_cycles) ELSE stop_cycles
    /\ slept' = NoSleep
    /\ UNCHANGED <<prices, tickers_to_watch, lock, running, current_watchlist,
                   results, rpc, rarg, rret, stop_writes>>
    /\ UNCHANGED <<planVars, histVars, resVars, accVars, selVars, cfgVars>>

\* "with self.lock:" of the snapshot: the lock is acquired.
WSnapAcquire ==
    /\ wpc = "snap_wait"
    /\ lock = "free"
    /\ lock' = "worker"
    /\ wpc' = "snap_locked"
    /\ UNCHANGED <<prices, tickers_to_watch, running, current_watchlist,
                   results, rpc, rarg, rret, stop_cycles, stop_writes>>
    /\ UNCHANGED slept
    /\ UNCHANGED <<planVars, histVars, resVars, accVars, selVars, cfgVars>>

\* current_watchlist = list(self.tickers_to_watch); the lock is released.
WSnapshot ==
    /\ wpc = "snap_locked"
    /\ current_watchlist' = tickers_to_watch
    /\ lock' = WithLockExit(lock)
    /\ wpc' = IF tickers_to_watch = {} THEN "sleep5" ELSE "fetch"
    /\ UNCHANGED <<prices, tickers_to_watch, running, results, rpc, rarg,
                   rret, stop_cycles, stop_writes>>
    /\ UNCHANGED slept
    /\ UNCHANGED <<planVars, histVars, resVars, accVars, selVars, cfgVars>>

\* "time.sleep(5); continue" of an empty snapshot.  The clock is not read.
WSleep5 ==
    /\ wpc = "sleep5"
    /\ wpc' = "loop"
    /\ slept' = [NoSleep EXCEPT !.duration = EmptyInterval]
    /\ UNCHANGED <<prices, tickers_to_watch, lock, running, current_watchlist,
                   results, rpc, rarg, rret, stop_cycles, stop_writes>>
    /\ UNCHANGED <<planVars, histVars, resVars, accVars, selVars, cfgVars>>

\* Step 2 of the cycle: the scrape and the download fill results.
WFetch ==
    /\ wpc = "fetch"
    /\ \E tg \in [items_to_fetch(WatchTickers) -> TradegatePrices],
          yf_ok \in BOOLEAN,
          latest \in [DownloadSymbols -> YfPrices] :
          results' = FetchResults(current_watchlist, tg, yf_ok, latest)
    /\ wpc' = "merge_wait"
    /\ UNCHANGED <<prices, tickers_to_watch, lock, running, current_watchlist,
                   rpc, rarg, rret, stop_cycles, stop_writes>>
    /\ UNCHANGED slept
    /\ UNCHANGED <<planVars, histVars, resVars, accVars, selVars, cfgVars>>

\* "with self.lock:" of step 3: the lock is acquired.
WMergeAcquire ==
    /\ wpc = "merge_wait"
    /\ lock = "free"
    /\ lock' = "worker"
    /\ wpc' = "merge_locked"
    /\ UNCHANGED <<prices, tickers_to_watch, running, current_watchlist,
                   results, rpc, rarg, rret, stop_cycles, stop_writes>>
    /\ UNCHANGED slept
    /\ UNCHANGED <<planVars, histVars, resVars, accVars, selVars, cfgVars>>

\* self.prices.update(results); the lock is released.  The two locals are
\* not read again before the next cycle assigns them: they are cleared here.
WMerge ==
    /\ wpc = "merge_locked"
    /\ prices' = PricesUpdate(prices, results)
    /\ lock' = WithLockExit(lock)
    /\ wpc' = "sleep"
    /\ stop_writes' = IF ~running THEN Saturate(stop_writes) ELSE stop_writes
    /\ current_watchlist' = {}
    /\ results' = <<>>
    /\ UNCHANGED <<tickers_to_watch, running, rpc, rarg, rret, stop_cycles>>
    /\ UNCHANGED slept
    /\ UNCHANGED <<planVars, histVars, resVars, accVars, selVars, cfgVars>>

\* "sleep_duration = 10 if is_tradegate_open() else 60" and
\* time.sleep(sleep_duration): the venue clock is read once.
WSleep ==
    /\ wpc = "sleep"
    /\ wpc' = "loop"
    /\ \E now \in VenueClocks :
          slept' = [duration |-> sleep_duration(now),
                    weekday |-> now.weekday, hour |-> now.hour]
    /\ UNCHANGED <<prices, tickers_to_watch, lock, running, current_watchlist,
                   results, rpc, rarg, rret, stop_cycles, stop_writes>>
    /\ UNCHANGED <<planVars, histVars, resVars, accVars, selVars, cfgVars>>

\* The running flag is cleared from outside the worker.
Stop ==
    /\ running
    /\ running' = FALSE
    /\ UNCHANGED <<prices, tickers_to_watch, lock, wpc, current_watchlist,
                   results, rpc, rarg, rret, stop_cycles, stop_writes>>
    /\ UNCHANGED slept
    /\ UNCHANGED <<planVars, histVars, resVars, accVars, selVars, cfgVars>>

\* A view thread calls update_watchlist, get_price or fetch_live_prices.
\* fetch_live_prices returns at once for an empty list, else it registers
\* the tickers and then reads them one by one.
ReaderCall(r) ==
    /\ rpc[r] = "idle"
    /\ \/ \E tickers \in TickerLists :
             /\ rarg' = [rarg EXCEPT ![r] = [fn |-> "update_watchlist",
                                            tickers |-> tickers, todo |-> <<>>]]
             /\ rpc' = [rpc EXCEPT ![r] = "uw_wait"]
       \/ \E t \in WatchTickers :
             /\ rarg' = [rarg EXCEPT ![r] = [fn |-> "get_price",
                                            tickers |-> <<>>, todo |-> <<t>>]]
             /\ rpc' = [rpc EXCEPT ![r] = "gp_wait"]
       \/ \E tickers \in TickerLists :
             /\ rarg' = [rarg EXCEPT ![r] = [fn |-> "fetch_live_prices",
                                            tickers |-> tickers,
                                            todo |-> tickers]]
             /\ rpc' = [rpc EXCEPT ![r] = IF tickers = <<>> THEN "idle"
                                          ELSE "uw_wait"]
    /\ UNCHANGED <<prices, tickers_to_watch, lock, running, wpc,
                   current_watchlist, results, rret, stop_cycles, stop_writes>>
    /\ UNCHANGED slept
    /\ UNCHANGED <<planVars, histVars, resVars, accVars, selVars, cfgVars>>

\* "with self.lock:" of update_watchlist or get_price: the lock is acquired.
ReaderAcquire(r) ==
    /\ rpc[r] \in {"uw_wait", "gp_wait"}
    /\ lock = "free"
    /\ lock' = r
    /\ rpc' = [rpc EXCEPT ![r] = IF rpc[r] = "uw_wait" THEN "uw_locked"
                                 ELSE "gp_locked"]
    /\ UNCHANGED <<prices, tickers_to_watch, running, wpc, current_watchlist,
                   results, rarg, rret, stop_cycles, stop_writes>>
    /\ UNCHANGED slept
    /\ UNCHANGED <<planVars, histVars, resVars, accVars, selVars, cfgVars>>

\* The body of update_watchlist; the lock is released.
UpdateWatchlist(r) ==
    /\ rpc[r] = "uw_locked"
    /\ tickers_to_watch' = WatchlistUpdate(tickers_to_watch, rarg[r].tickers)
    /\ lock' = WithLockExit(lock)
    /\ rpc' = [rpc EXCEPT ![r] = IF rarg[r].todo = <<>> THEN "idle"
                                 ELSE "gp_wait"]
    /\ UNCHANGED <<prices, running, wpc, current_watchlist, results, rarg,
                   rret, stop_cycles, stop_writes>>
    /\ UNCHANGED slept
    /\ UNCHANGED <<planVars, histVars, resVars, accVars, selVars, cfgVars>>

\* The body of get_price; the lock is released.
GetPrice(r) ==
    /\ rpc[r] = "gp_locked"
    /\ rret' = [rret EXCEPT ![r] = PriceGet(prices, Head(rarg[r].todo))]
    /\ prices' = PricesAfterGet(prices, Head(rarg[r].todo))
    /\ lock' = WithLockExit(lock)
    /\ rarg' = [rarg EXCEPT ![r].todo = Tail(rarg[r].todo)]
    /\ rpc' = [rpc EXCEPT ![r] = IF Tail(rarg[r].todo) = <<>> THEN "idle"
                                 ELSE "gp_wait"]
    /\ UNCHANGED <<tickers_to_watch, running, wpc, current_watchlist, results,
                   stop_cycles, stop_writes>>
    /\ UNCHANGED slept
    /\ UNCHANGED <<planVars, histVars, resVars, accVars, selVars, cfgVars>>

WorkerStep ==
    WLoop \/ WSnapAcquire \/ WSnapshot \/ WSleep5 \/ WFetch \/ WMergeAcquire
    \/ WMerge \/ WSleep

ReaderStep(r) ==
    ReaderCall(r) \/ ReaderAcquire(r) \/ UpdateWatchlist(r) \/ GetPrice(r)

NextWorker == WorkerStep \/ Stop \/ (\E r \in Readers : ReaderStep(r))

SpecWorker == InitWorker /\ [][NextWorker]_vars

\* The worker is scheduled, time.sleep and the fetch return, a thread that
\* keeps asking for the lock gets it, and a with block is left.
SpecWorkerFair ==
    /\ SpecWorker
    /\ WF_vars(WLoop \/ WSnapshot \/ WSleep5 \/ WFetch \/ WMerge \/ WSleep)
    /\ SF_vars(WSnapAcquire \/ WMergeAcquire)
    /\ \A r \in Readers : WF_vars(UpdateWatchlist(r) \/ GetPrice(r))

\* C17: the worker holds the lock only inside its two with blocks, never
\* while it fetches or sleeps, and a get_price returns the entry the price
\* map holds at that moment, or nothing.
C17_LockNotHeldDuringFetch ==
    /\ [](lock = "worker" => wpc \in {"snap_locked", "merge_locked"})
    /\ [][\A r \in Readers :
            (rpc[r] = "gp_locked" /\ rpc'[r] # "gp_locked")
            => rret'[r] = PriceGet(prices, Head(rarg[r].todo))]_vars

\* A reader holds the lock while the worker fetches.
C17_Witness ==
    /\ wpc = "fetch"
    /\ \E r \in Readers : lock = r /\ rpc[r] = "gp_locked"

\* C18: the watchlist only grows and never holds an empty ticker, every
\* snapshot holds all tickers registered before it, and a ticker whose fetch
\* yielded a price gets into the price map.
C18_WatchlistAdditive ==
    /\ []("" \notin tickers_to_watch /\ None \notin tickers_to_watch)
    /\ [][/\ tickers_to_watch \subseteq tickers_to_watch'
          /\ (wpc = "snap_locked" /\ wpc' # "snap_locked")
             => tickers_to_watch \subseteq current_watchlist']_vars
    /\ \A t \in WatchTickers :
          (wpc = "merge_wait" /\ t \in DOMAIN results) ~> (t \in DOMAIN prices)

\* A ticker was registered while a fetch cycle was in progress, and an
\* earlier registration has its price in the map.
C18_Witness ==
    /\ wpc = "fetch"
    /\ current_watchlist # {}
    /\ current_watchlist # tickers_to_watch
    /\ prices # <<>>

\* C19: once running is cleared the worker starts no new cycle, writes the
\* price map at most once more (the cycle in progress), exits, and does
\* nothing after that.
C19_ShutdownExits ==
    /\ [](stop_cycles = 0 /\ stop_writes <= 1)
    /\ [](wpc = "exited" => ~running)
    /\ [][wpc = "exited" => (wpc' = "exited" /\ prices' = prices)]_vars
    /\ (~running) ~> (wpc = "exited")

\* The flag was cleared during a cycle, the cycle wrote its results, and the
\* worker has exited.
C19_Witness ==
    /\ ~running
    /\ wpc = "exited"
    /\ stop_writes = 1
    /\ prices # <<>>

\* C20: only the worker's merge changes the price map, and only
\* update_watchlist changes the watchlist.
C20_SingleWriter ==
    [][/\ prices' # prices =>
             (wpc = "merge_locked" /\ wpc' = "sleep" /\ rpc' = rpc)
       /\ tickers_to_watch' # tickers_to_watch =>
             (/\ wpc' = wpc
              /\ \E r \in Readers :
                    rpc[r] = "uw_locked" /\ rpc'[r] # "uw_locked")]_vars

\* The worker has written a price and a reader has read it.
C20_Witness ==
    /\ prices # <<>>
    /\ tickers_to_watch # {}
    /\ \E r \in Readers : rret[r] # NoPrice /\ rpc[r] = "idle"

\* ------------------------------------------------------------------------
\* Rebalancing planner: shares, fees and the correction loop
\* ------------------------------------------------------------------------
IsWhole(q) == q.d = 1

WholeShares(a) == IsWhole(a.Aantal) /\ a.Verschil = RMul(a.Aantal, a.last_price)

\* The correction has taken a share off action i.
Reduced(i) == raw_actions[i].Aantal # initial_actions[i].Aantal

\* C21: at plan creation and after every step of the correction, a non-crypto
\* action has a whole share count and executed value = shares * price, and a
\* crypto action that is not none has the (scaled) gap as its executed value.
C21_WholeShares ==
    Planned =>
        \A i \in DOMAIN raw_actions :
            IF raw_actions[i].is_crypto
            THEN raw_actions[i].Actie # "-" => raw_actions[i].Verschil = RowDiff(i)
            ELSE WholeShares(raw_actions[i])

\* The statement for every crypto action, the none ones included.
C21_CryptoAlwaysGap ==
    Planned =>
        \A i \in DOMAIN raw_actions :
            IF raw_actions[i].is_crypto
            THEN raw_actions[i].Verschil = RowDiff(i)
            ELSE WholeShares(raw_actions[i])

\* The correction took a share off a buy that still trades, next to a crypto
\* action with a fractional quantity.
C21_Witness ==
    /\ pc = "done"
    /\ \E i \in DOMAIN raw_actions :
          /\ ~raw_actions[i].is_crypto
          /\ Reduced(i)
          /\ raw_actions[i].Actie = "Kopen"
    /\ \E i \in DOMAIN raw_actions :
          /\ raw_actions[i].is_crypto
          /\ raw_actions[i].Actie # "-"
          /\ ~IsWhole(raw_actions[i].Aantal)

\* The fee settings a new ConfigManager starts with.
stock_fee_eur == 1
crypto_fee_pct == Rat(29, 100)      \* a percentage

\* C22: every non-crypto action that is not none carries the configured flat
\* fee, every crypto action that is not none carries |executed value| * the
\* configured crypto percentage, before and after the correction.
C22_FeeSchedule ==
    Planned =>
        \A i \in DOMAIN raw_actions :
            raw_actions[i].Actie # "-" =>
                raw_actions[i].Kosten =
                    IF raw_actions[i].is_crypto
                    THEN RMul(RAbs(raw_actions[i].Verschil),
                              RDiv(crypto_fee_pct, RInt(100)))
                    ELSE RInt(stock_fee_eur)

\* The non-crypto buys of the plan as phase 1 built it.
IsNonCryptoBuy(a) == a.Actie = "Kopen" /\ ~a.is_crypto

\* C28: the correction terminates; it takes at most one share off each
\* non-crypto buy and never adds one; it leaves sells, crypto actions and none
\* actions as they were; it visits the buys in descending price order; it
\* goes on only while net > budget + tolerance and stops at the first
\* reduction that brings net within it.
C28_CorrectionTerminates ==
    /\ <>(pc = "done")
    /\ [](Planned =>
            \A i \in DOMAIN raw_actions :
                /\ raw_actions[i].Aantal \in
                      {initial_actions[i].Aantal,
                       RSub(initial_actions[i].Aantal, RInt(1))}
                /\ ~IsNonCryptoBuy(initial_actions[i])
                      => raw_actions[i] = initial_actions[i])
    /\ [](pc = "correct" => OverBudget(raw_actions, extra_budget))
    /\ [][pc = "correct" =>
            /\ \A i \in DOMAIN raw_actions :
                  raw_actions'[i] # raw_actions[i] =>
                      /\ ~Reduced(i)
                      /\ \A j \in DOMAIN raw_actions :
                            (IsNonCryptoBuy(initial_actions[j]) /\ j # i) =>
                               /\ RLt(raw_actions[i].last_price,
                                      raw_actions[j].last_price) => Reduced(j)
                               /\ RLt(raw_actions[j].last_price,
                                      raw_actions[i].last_price) => ~Reduced(j)
            /\ (raw_actions' # raw_actions
                /\ ~OverBudget(raw_actions', extra_budget)) => pc' = "done"]_vars

\* The correction took a share off a dearer buy listed after a cheaper one,
\* which it left alone because the plan then fitted.
C28_Witness ==
    /\ pc = "done"
    /\ Len(raw_actions) = 2
    /\ IsNonCryptoBuy(initial_actions[1])
    /\ IsNonCryptoBuy(initial_actions[2])
    /\ RLt(raw_actions[1].last_price, raw_actions[2].last_price)
    /\ Reduced(2)
    /\ ~Reduced(1)

\* C29: in the final plan a buy has shares > 0 and executed value > 0, a sell
\* has shares < 0 and executed value < 0, and a none action has 0 shares, 0
\* executed value and 0 fee.
C29_ActionConsistency ==
    pc = "done" =>
        \A i \in DOMAIN raw_actions :
            LET a == raw_actions[i]
            IN  /\ a.Actie = "Kopen" =>
                      RLt(RZero, a.Aantal) /\ RLt(RZero, a.Verschil)
                /\ a.Actie = "Verkopen" =>
                      RLt(a.Aantal, RZero) /\ RLt(a.Verschil, RZero)
                /\ a.Actie = "-" => IsNone(a)

\* ------------------------------------------------------------------------
\* History: the rows of the valuation series
\* ------------------------------------------------------------------------
\* The frame built so far, and the returned one once the function is done.
OutputRows == IF hpc = "done" THEN final_df ELSE Concat(history_frames)

RowsAt(p, t) ==
    { i \in DOMAIN OutputRows : OutputRows[i].product = p /\ OutputRows[i].date = t }

\* C23: for every instrument whose prices were stitched, the output holds
\* exactly one row per stitched sample that has a price, with that price and
\* whatever the quantity is (0 included), and no row at a timestamp whose
\* stitched price is missing; other instruments have no rows.
C23_OneRowPerPricedSample ==
    /\ \A p \in DOMAIN stitched :
          \A k \in DOMAIN stitched[p] :
              LET smp == stitched[p][k]
              IN  IF smp.price = NaN
                  THEN RowsAt(p, smp.t) = {}
                  ELSE /\ Cardinality(RowsAt(p, smp.t)) = 1
                       /\ \A i \in RowsAt(p, smp.t) : OutputRows[i].price = smp.price
    /\ \A i \in DOMAIN OutputRows :
          /\ OutputRows[i].product \in DOMAIN stitched
          /\ OutputRows[i].date \in IndexOf(stitched[OutputRows[i].product])

\* A sample without a price was dropped, and the series has a row with
\* quantity 0 before the first purchase and one after a full sale.
C23_Witness ==
    /\ hpc = "done"
    /\ \E p \in DOMAIN stitched :
          LET ev == EventsOf(ledger, p)
          IN  /\ \E k \in DOMAIN stitched[p] : stitched[p][k].price = NaN
              /\ \E i \in DOMAIN final_df :
                    /\ final_df[i].product = p
                    /\ final_df[i].quantity = 0
                    /\ \A e \in ev : final_df[i].date < e.value_date
              /\ \E i \in DOMAIN final_df :
                    /\ final_df[i].product = p
                    /\ final_df[i].quantity = 0
                    /\ \E e \in ev : e.value_date <= final_df[i].date

\* ------------------------------------------------------------------------
\* Background price manager: pacing and the content of the price map
\* ------------------------------------------------------------------------
\* C25: the sleep that ends a cycle with a non-empty snapshot lasts 10 exactly
\* when the venue clock shows a weekday (Monday to Friday) and 9 <= hour < 22,
\* and 60 otherwise; a cycle is fetched only for a non-empty snapshot; with
\* an empty snapshot the worker goes straight to a sleep of 5 and back to the
\* loop test, leaving the price map and the results alone.
C25_CyclePacing ==
    /\ [](wpc \in {"fetch", "merge_wait", "merge_locked"} => current_watchlist # {})
    /\ [](wpc = "sleep5" => current_watchlist = {})
    /\ [][/\ (wpc = "snap_locked" /\ wpc' # wpc) =>
                wpc' = IF current_watchlist' = {} THEN "sleep5" ELSE "fetch"
          /\ (wpc = "sleep" /\ wpc' # wpc) =>
                /\ wpc' = "loop"
                /\ slept'.duration =
                      IF /\ slept'.weekday \in 0..4
                         /\ 9 <= slept'.hour
                         /\ slept'.hour < 22
                      THEN 10 ELSE 60
          /\ (wpc = "sleep5" /\ wpc' # wpc) =>
                /\ wpc' = "loop"
                /\ slept'.duration = 5
                /\ prices' = prices
                /\ results' = results]_vars

\* The worker has slept 60 after a cycle that ended on a Saturday at 9.
C25_Witness ==
    /\ wpc = "loop"
    /\ prices # <<>>
    /\ slept.duration = 60
    /\ slept.weekday = 5
    /\ slept.hour = 9

\* C26: every price in the map is > 0; an entry is never removed, and it
\* changes only when the merge of a cycle stores the positive price that the
\* cycle fetched for that ticker.
C26_StaleNeverCorrupt ==
    /\ [](\A t \in DOMAIN prices : prices[t] > 0)
    /\ [][\A t \in DOMAIN prices :
            /\ t \in DOMAIN prices'
            /\ prices'[t] # prices[t] =>
                  /\ wpc = "merge_locked"
                  /\ t \in DOMAIN results
                  /\ results[t] > 0
                  /\ prices'[t] = results[t]]_vars

\* A cycle fetched nothing for a watched ticker that has a price, and a newer
\* price for another one.
C26_Witness ==
    /\ wpc = "merge_locked"
    /\ \E t \in current_watchlist : t \in DOMAIN prices /\ t \notin DOMAIN results
    /\ \E t \in DOMAIN results : t \in DOMAIN prices /\ prices[t] # results[t]

\* C27: every ticker with an entry in the price map is in the watchlist.
C27_PricesWithinWatchlist == DOMAIN prices \subseteq tickers_to_watch

\* The price of VWCE.DE came from the download, where its alternatives are
\* asked for as well, and another watched ticker has no price.
C27_Witness ==
    /\ "VWCE.DE" \in DOMAIN prices
    /\ prices["VWCE.DE"] \in YfPrices
    /\ tickers_to_watch \ DOMAIN prices # {}

\* ------------------------------------------------------------------------
\* Ticker resolver: step 4, the symbol search, on arbitrary search results
\* ------------------------------------------------------------------------
MaxQuotes == 2      \* quotes the search returns for the isin

SearchSymbols == {"NVDA", "NVD.DE", "NVD.SG"}

\* Quotes the search endpoint can return: a US listing, two listings on
\* preferred exchanges, a quote of another instrument type, a quote without
\* a symbol and a quote without an exchange.
SearchQuotes ==
    { [symbol |-> "NVDA", quoteType |-> "EQUITY", exchange |-> "NMS"],
      [symbol |-> "NVD.DE", quoteType |-> "EQUITY", exchange |-> "GER"],
      [symbol |-> "NVD.SG", quoteType |-> "ETF", exchange |-> "STU"],
      [symbol |-> "NVD.DE", quoteType |-> "CRYPTOCURRENCY", exchange |-> "GER"],
      [symbol |-> "", quoteType |-> "EQUITY", exchange |-> "GER"],
      [symbol |-> "NVD.SG", quoteType |-> "MUTUALFUND", exchange |-> ""] }

QuoteLists(n) == UNION { [1..k -> SearchQuotes] : k \in 0..n }

InitSelect ==
    /\ dpc = "input"
    /\ isin_quotes \in QuoteLists(MaxQuotes)
    /\ name_quotes \in QuoteLists(1)
    /\ search_valid \in SUBSET SearchSymbols
    /\ discovered_ticker = None
    /\ PlanIdle
    /\ HistIdle
    /\ ResolverIdle
    /\ WorkerIdle
    /\ AccessIdle
    /\ ConfigIdle

\* "quotes.extend(...)" twice, then
\* "discovered_ticker = self._select_best_quote(quotes) if quotes else None".
Discover ==
    /\ dpc = "input"
    /\ LET quotes == isin_quotes \o name_quotes
       IN  discovered_ticker' =
              IF quotes # <<>> THEN select_best_quote(quotes, search_valid).ticker
              ELSE None
    /\ dpc' = "done"
    /\ UNCHANGED <<isin_quotes, name_quotes, search_valid>>
    /\ UNCHANGED <<planVars, histVars, resVars, workVars, accVars, cfgVars>>

NextSelect == Discover

SpecSelect == InitSelect /\ [][NextSelect]_vars

\* The quotes in result order, and the positions of the candidates: quotes
\* with a symbol and a wanted type that validate, and those of them that are
\* on a preferred exchange.
AllQuotes == isin_quotes \o name_quotes

ValidCandidates ==
    { i \in DOMAIN AllQuotes :
        /\ AllQuotes[i].symbol # ""
        /\ AllQuotes[i].quoteType \in {"EQUITY", "ETF", "MUTUALFUND"}
        /\ AllQuotes[i].symbol \in search_valid }

PreferredCandidates ==
    { i \in ValidCandidates :
        AllQuotes[i].exchange \in {"STU", "GER", "AMS", "PAR", "MIL", "BRU", "DUB"} }

\* C24: the symbol the search step returns belongs to a quote of type EQUITY,
\* ETF or MUTUALFUND and validates; when a candidate on a preferred exchange
\* validates, the first such candidate in result order is returned (so one on
\* another exchange is returned only when no preferred one validates); when
\* no candidate validates nothing is returned.
C24_SearchSelection ==
    dpc = "done" =>
        /\ discovered_ticker # None =>
              \E i \in ValidCandidates : AllQuotes[i].symbol = discovered_ticker
        /\ PreferredCandidates # {} =>
              discovered_ticker = AllQuotes[SetMin(PreferredCandidates)].symbol
        /\ ValidCandidates = {} => discovered_ticker = None

\* The first quote validates on a non-preferred exchange, the first quote on a
\* preferred exchange does not validate, the second one does and is returned.
C24_Witness ==
    /\ dpc = "done"
    /\ Len(AllQuotes) = 3
    /\ 1 \in ValidCandidates \ PreferredCandidates
    /\ AllQuotes[2].exchange = "GER"
    /\ AllQuotes[2].quoteType = "EQUITY"
    /\ 2 \notin ValidCandidates
    /\ 3 \in PreferredCandidates
    /\ discovered_ticker = AllQuotes[3].symbol
    /\ discovered_ticker # AllQuotes[1].symbol

\* ------------------------------------------------------------------------
\* Configuration store: ConfigManager and its JSON files
\* ------------------------------------------------------------------------
\* A JSON object is a function from strings; json.dump and json.load leave
\* the string keys, strings and numbers of this model as they are.  None and
\* {} are both falsy, and the callers of _load_json only test that.
MaxOps == 3     \* constructor and set_mapping calls in one behaviour

CONFIG_FILE == "target_config.json"
LEGACY_SETTINGS_FILE == "target_config_settings.json"
LEGACY_MAPPING_FILE == "target_config_mapping.json"
LEGACY_NAMES_FILE == "target_config_names.json"

ConfigFiles ==
    {CONFIG_FILE, LEGACY_SETTINGS_FILE, LEGACY_MAPPING_FILE, LEGACY_NAMES_FILE}

NoData == <<>>

\* self._config as __init__ sets it.
DefaultConfig ==
    ("assets" :> <<>>)
    @@ ("settings" :> (("stock_fee_eur" :> stock_fee_eur)
                       @@ ("crypto_fee_pct" :> crypto_fee_pct)))
    @@ ("mappings" :> <<>>)

\* The store layouts tried: nothing, the four legacy files, only a legacy
\* mapping file, a unified file, a unified file with the assets section only.
LegacyFiles ==
    (CONFIG_FILE :> (("VWCE" :> 60) @@ ("BTC" :> 40)))
    @@ (LEGACY_SETTINGS_FILE :> ("stock_fee_eur" :> 2))
    @@ (LEGACY_MAPPING_FILE :> ("IE00BK5BQT80" :> "VWCE.DE"))
    @@ (LEGACY_NAMES_FILE :> (("VWCE" :> "Vanguard FTSE All-World")
                              @@ ("NVDA" :> "NVIDIA")))

LegacyMappingOnly == LEGACY_MAPPING_FILE :> ("IE00BK5BQT80" :> "VWCE.DE")

UnifiedFile ==
    CONFIG_FILE :>
        (("assets" :> ("VWCE" :> (("target_pct" :> 100)
                                  @@ ("display_name" :> "Vanguard"))))
         @@ ("settings" :> ("stock_fee_eur" :> 1))
         @@ ("mappings" :> ("VWCE" :> "VWCE.DE")))

AssetsOnlyFile == CONFIG_FILE :> ("assets" :> ("VWCE" :> ("target_pct" :> 100)))

LocalLayouts == {<<>>, LegacyFiles, LegacyMappingOnly, UnifiedFile, AssetsOnlyFile}

DriveLayouts == {<<>>, LegacyFiles, UnifiedFile}

MappingKeys == {"VWCE", "US67066G1040"}
MappingValues == {"VWCE.AS", "NVDA"}

\* ConfigManager._load_json.  drive_ok: drive.load_json does not raise (it
\* returns {} for a missing file).
load_json(filename, dfiles, lfiles, drive, drive_ok) ==
    IF drive /\ drive_ok /\ filename \in DOMAIN dfiles /\ dfiles[filename] # <<>>
    THEN dfiles[filename]
    ELSE IF filename \in DOMAIN lfiles THEN lfiles[filename]
    ELSE NoData

\* "Ensure keys exist if partial file"
EnsureSections(data) ==
    [k \in DOMAIN data \cup {"settings", "mappings"} |->
        IF k \in DOMAIN data THEN data[k] ELSE <<>>]

\* ConfigManager._migrate_legacy_config on the fresh _config, before the save.
migrate_legacy_config(old_targets, old_settings, old_mappings, old_names) ==
    LET targets == [k \in DOMAIN old_targets |-> "target_pct" :> old_targets[k]]
        assets ==
            [k \in DOMAIN targets \cup DOMAIN old_names |->
                IF k \in DOMAIN old_names
                THEN ("display_name" :> old_names[k])
                     @@ (IF k \in DOMAIN targets THEN targets[k]
                         ELSE "target_pct" :> 0)
                ELSE targets[k]]
    IN  ("assets" :> assets)
        @@ ("settings" :> (old_settings @@ DefaultConfig["settings"]))
        @@ ("mappings" :> (old_mappings @@ DefaultConfig["mappings"]))

\* ConfigManager.load_all: the resulting _config and whether it migrated.
\* ok: which of the Drive reads do not raise.
load_all(dfiles, lfiles, drive, ok) ==
    LET Read(f) == load_json(f, dfiles, lfiles, drive, ok[f])
        data == Read(CONFIG_FILE)
    IN  IF data # <<>> /\ "assets" \in DOMAIN data
        THEN [config |-> EnsureSections(data), migrated |-> FALSE]
        ELSE [config |-> migrate_legacy_config(data, Read(LEGACY_SETTINGS_FILE),
                                               Read(LEGACY_MAPPING_FILE),
                                               Read(LEGACY_NAMES_FILE)),
              migrated |-> TRUE]

\* ConfigManager._save_config: the written store, Drive if there is one, else
\* the working directory; a write that raises leaves the store as it was.
SavedDrive(dfiles, drive, cfg, save_ok) ==
    IF drive /\ save_ok THEN (CONFIG_FILE :> cfg) @@ dfiles ELSE dfiles

SavedLocal(lfiles, drive, cfg, save_ok) ==
    IF ~drive /\ save_ok THEN (CONFIG_FILE :> cfg) @@ lfiles ELSE lfiles

\* What the store holds under a name when every read succeeds.
Stored(f) == load_json(f, drive_files, local_files, has_drive, TRUE)

ConfigManagerExists == config # <<>>

InitConfig ==
    /\ has_drive \in BOOLEAN
    /\ local_files \in LocalLayouts
    /\ drive_files \in (IF has_drive THEN DriveLayouts ELSE {<<>>})
    /\ config = <<>>
    /\ log = <<>>
    /\ PlanIdle
    /\ HistIdle
    /\ ResolverIdle
    /\ WorkerIdle
    /\ AccessIdle
    /\ SelectIdle

\* ConfigManager(drive): __init__ sets the default _config and calls load_all,
\* which saves when it migrated.
NewConfigManager ==
    /\ Len(log) < MaxOps
    /\ \E ok \in [ConfigFiles -> BOOLEAN], save_ok \in BOOLEAN :
          LET r == load_all(drive_files, local_files, has_drive, ok)
              unified == Stored(CONFIG_FILE) # <<>>
                         /\ "assets" \in DOMAIN Stored(CONFIG_FILE)
          IN  /\ ~has_drive => (\A f \in ConfigFiles : ok[f])
              /\ config' = r.config
              /\ drive_files' = IF r.migrated
                                THEN SavedDrive(drive_files, has_drive, r.config, save_ok)
                                ELSE drive_files
              /\ local_files' = IF r.migrated
                                THEN SavedLocal(local_files, has_drive, r.config, save_ok)
                                ELSE local_files
              /\ log' = Append(log,
                     [op |-> "load", migrated |-> r.migrated, config |-> r.config,
                      key |-> "", value |-> "",
                      targets |-> IF unified THEN <<>> ELSE Stored(CONFIG_FILE),
                      mappings |-> IF unified THEN <<>> ELSE Stored(LEGACY_MAPPING_FILE),
                      names |-> IF unified THEN <<>> ELSE Stored(LEGACY_NAMES_FILE),
                      raised |-> (\E f \in ConfigFiles : ~ok[f])
                                 \/ (r.migrated /\ ~save_ok)])
    /\ UNCHANGED has_drive
    /\ UNCHANGED <<planVars, histVars, resVars, workVars, accVars, selVars>>

\* config.set_mapping(key, value)
SetMapping ==
    /\ Len(log) < MaxOps
    /\ ConfigManagerExists
    /\ \E key \in MappingKeys, value \in MappingValues, save_ok \in BOOLEAN :
          LET cfg == [config EXCEPT !["mappings"] = set_mapping(@, key, value)]
          IN  /\ config' = cfg
              /\ drive_files' = SavedDrive(drive_files, has_drive, cfg, save_ok)
              /\ local_files' = SavedLocal(local_files, has_drive, cfg, save_ok)
              /\ log' = Append(log,
                     [op |-> "set", migrated |-> FALSE, config |-> cfg,
                      key |-> key, value |-> value,
                      targets |-> <<>>, mappings |-> <<>>, names |-> <<>>,
                      raised |-> ~save_ok])
    /\ UNCHANGED has_drive
    /\ UNCHANGED <<planVars, histVars, resVars, workVars, accVars, selVars>>

NextConfig == NewConfigManager \/ SetMapping

SpecConfig == InitConfig /\ [][NextConfig]_vars

\* ConfigManager.get_targets
get_targets(cfg) ==
    [k \in DOMAIN cfg["assets"] |->
        IF "target_pct" \in DOMAIN cfg["assets"][k]
        THEN cfg["assets"][k]["target_pct"] ELSE 0]

\* The display names of a configuration.
DisplayNames(cfg) ==
    [k \in { a \in DOMAIN cfg["assets"] : "display_name" \in DOMAIN cfg["assets"][a] }
        |-> cfg["assets"][k]["display_name"]]

\* C30: after every load the configuration has the assets, settings and
\* mappings sections; a load that migrates takes over every legacy target,
\* mapping and display name of the store, and the load that follows it does
\* not migrate and returns the same targets, mappings and names; a mapping
\* written with set_mapping is returned by get_ticker_for_product after the
\* next load.
C30_PersistenceRoundTrip ==
    \A i \in DOMAIN log :
        LET e == log[i]
        IN  /\ e.op = "load" =>
                  {"assets", "settings", "mappings"} \subseteq DOMAIN e.config
            /\ (e.op = "load" /\ e.migrated) =>
                  /\ \A k \in DOMAIN e.targets :
                        /\ k \in DOMAIN get_targets(e.config)
                        /\ get_targets(e.config)[k] = e.targets[k]
                  /\ \A k \in DOMAIN e.mappings :
                        /\ k \in DOMAIN e.config["mappings"]
                        /\ e.config["mappings"][k] = e.mappings[k]
                  /\ \A k \in DOMAIN e.names :
                        /\ k \in DOMAIN DisplayNames(e.config)
                        /\ DisplayNames(e.config)[k] = e.names[k]
                  /\ (i < Len(log) /\ log[i + 1].op = "load") =>
                        /\ ~log[i + 1].migrated
                        /\ get_targets(log[i + 1].config) = get_targets(e.config)
                        /\ log[i + 1].config["mappings"] = e.config["mappings"]
                        /\ DisplayNames(log[i + 1].config) = DisplayNames(e.config)
            /\ (e.op = "set" /\ i < Len(log) /\ log[i + 1].op = "load") =>
                  get_ticker_for_product(log[i + 1].config["mappings"],
                                         e.key, None) = e.value

====
